---- MODULE Spec2Model ----
(***************************************************************************)
(* Model of appstore-earnings-cli: the finance report parser, the product  *)
(* aggregator, the currency converter with its concurrent rate lookups,    *)
(* the grouping of products under their parent app, the payment estimator, *)
(* the calendar months with their fiscal period identifiers, and main from *)
(* its flags and configuration over the product mapping (cache and build)  *)
(* and the report (cache and download) to the display, run after run.      *)
(*                                                                         *)
(* A JavaScript string is a sequence of tokens.  "\n", "\t" and " " are    *)
(* the whitespace characters; every other token is a run of non-white      *)
(* characters that no operation of the program looks inside (type codes    *)
(* are spelled one character per token because startsWith reads them).     *)
(* Money is fixed point: an amount is an integer number of 1/1000 of a     *)
(* currency unit and every amount read from a report is a whole number of  *)
(* cents; a rate is an integer number of 1/RateUnit, so amount * rate is   *)
(* exact.  Floating-point rounding is not modelled.                        *)
(***************************************************************************)
EXTENDS Integers, Sequences, FiniteSets, TLC

VARIABLES
    pc,              \* position of the running function / of main
    tsvContent,      \* parseFinanceReport: the raw text
    lines,           \* parseFinanceReport: tsvContent.trim().split("\n")
    i,               \* parseFinanceReport: loop index (0-based, as in the source)
    rows,            \* parseFinanceReport: the result being built
    rowIdx,          \* aggregateByProduct: number of rows already consumed
    productMap,      \* aggregateByProduct: Map in insertion order <<key, product>>
    products,        \* main: the product list
    currencies,      \* fetchExchangeRates: the requested currencies
    targetCurrency,  \* config.targetCurrency
    rateSource,      \* the rate source: what each lookup will answer
    lookups,         \* fetchExchangeRates: state of each ratePromise
    exchangeRates,   \* the rate table: rates of fetchExchangeRates, then main's exchangeRates
    productMapping,  \* main: Map key -> ProductInfo; empty also stands for null
    prodIdx,         \* groupByParentApp: number of products already placed
    appMap,          \* groupByParentApp: Map in insertion order
    apps,            \* main: the parent entries returned by groupByParentApp
    resolved,        \* groupByParentApp: locals of the last iteration
    now,             \* the clock: new Date() as [day, late]
    fiscalPeriodEndDate, \* parsePaymentInfo: the optional parameter
    payLines,        \* parsePaymentInfo: tsvContent.trim().split("\n")
    payIdx,          \* parsePaymentInfo: number of lines already scanned
    paymentInfo,     \* parsePaymentInfo: the object being filled
    payResult,       \* parsePaymentInfo: what it returned (Null or Some(paymentInfo))
    calYear,         \* createCalendarMonth: year
    calMonth,        \* createCalendarMonth: month (1-based)
    calResult,       \* createCalendarMonth: the CalendarMonth returned
    fiscalIn,        \* fiscalMonthToCalendarMonth: fiscalMonth
    fiscalOut,       \* fiscalMonthToCalendarMonth: the value returned
    count,           \* getRecentCalendarMonths: count
    year,            \* getRecentCalendarMonths: let year
    month,           \* getRecentCalendarMonths: let month (0-based)
    loopIdx,         \* getRecentCalendarMonths: the loop's i
    months,          \* getRecentCalendarMonths: the list being built
    argv,            \* process.argv: the set of flags given
    configured,      \* the configuration keys that have a value in some source
    mappingCacheFile, \* product-mapping.json: Null or Some(content)
    apiSource,       \* the App Store Connect API: what each mapping fetch answers
    fetchedApps,     \* buildProductMapping: apps, in the order fetched
    appIdx,          \* buildProductMapping: number of apps already iterated
    builtMapping,    \* buildProductMapping: productMap
    selectedMonth,   \* main: selectedMonth
    reportCache,     \* the report cache directory: file name -> text
    response,        \* the network's answer to the report request (Null or Some(answer))
    fetched,         \* fetchFinanceReport: the text it returned
    thrown,          \* fetchFinanceReport: the error it threw (Null or Some(error))
    io,              \* the run's file reads and writes, requests and messages, in order
    runs             \* number of runs of the program completed before this one

vars == <<pc, tsvContent, lines, i, rows, rowIdx, productMap, products,
          currencies, targetCurrency, rateSource, lookups,
          exchangeRates, productMapping, prodIdx, appMap, apps, resolved,
          now, fiscalPeriodEndDate, payLines, payIdx, paymentInfo, payResult,
          calYear, calMonth, calResult, fiscalIn, fiscalOut,
          count, year, month, loopIdx, months,
          argv, configured, mappingCacheFile, apiSource, fetchedApps, appIdx,
          builtMapping, selectedMonth, reportCache, response, fetched, thrown, io, runs>>

parseVars == <<tsvContent, lines, i, rows>>
aggVars == <<rowIdx, productMap>>
rateVars == <<currencies, targetCurrency, rateSource, lookups, exchangeRates>>
groupVars == <<productMapping, prodIdx, appMap, apps, resolved>>
clockVars == <<now>>
payVars == <<fiscalPeriodEndDate, payLines, payIdx, paymentInfo, payResult>>
calVars == <<calYear, calMonth, calResult, fiscalIn, fiscalOut>>
recentVars == <<count, year, month, loopIdx, months>>
buildVars == <<apiSource, fetchedApps, appIdx, builtMapping>>
runVars == <<argv, configured, mappingCacheFile, buildVars, selectedMonth,
             reportCache, response, fetched, thrown, io, runs>>

-----------------------------------------------------------------------------
(* Bounds *)

MaxLines == 4       \* lines of a report drawn for the parser
MaxRows == 3        \* rows drawn for the aggregator
MaxProducts == 3    \* products drawn for the grouper

-----------------------------------------------------------------------------
(* Strings *)

NL == "\n"
TAB == "\t"
SP == " "

Whitespace == {NL, TAB, SP}

EmptyStr == << >>

\* The positions of s that hold a character of the set cs.
Positions(s, cs) == {k \in 1..Len(s) : s[k] \in cs}

SetMin(S) == CHOOSE k \in S : \A m \in S : k <= m
SetMax(S) == CHOOSE k \in S : \A m \in S : m <= k

TrimStart(s) ==
    LET keep == {k \in 1..Len(s) : s[k] \notin Whitespace}
    IN IF keep = {} THEN << >> ELSE SubSeq(s, SetMin(keep), Len(s))

TrimEnd(s) ==
    LET keep == {k \in 1..Len(s) : s[k] \notin Whitespace}
    IN IF keep = {} THEN << >> ELSE SubSeq(s, 1, SetMax(keep))

\* String.prototype.trim
Trim(s) == TrimEnd(TrimStart(s))

\* String.prototype.split(sep) for a one-character separator: one piece
\* more than there are separators, "" splits into [""].
Split(s, sep) ==
    LET at == Positions(s, {sep})
        \* position of the n-th separator; 0 before the first, Len(s)+1 after the last
        nth(n) == IF n = 0 THEN 0
                  ELSE IF n > Cardinality(at) THEN Len(s) + 1
                  ELSE CHOOSE k \in at : Cardinality({m \in at : m <= k}) = n
    IN [n \in 1..(Cardinality(at) + 1) |-> SubSeq(s, nth(n - 1) + 1, nth(n) - 1)]

\* String.prototype.startsWith
StartsWith(s, prefix) ==
    Len(s) >= Len(prefix) /\ SubSeq(s, 1, Len(prefix)) = prefix

RECURSIVE Join(_, _)
Join(pieces, sep) ==
    IF pieces = << >> THEN << >>
    ELSE IF Len(pieces) = 1 THEN pieces[1]
    ELSE pieces[1] \o << sep >> \o Join(Tail(pieces), sep)

\* Values of the variables of a stage that has not run.
NoProducts == << >>
NoRates == << >>
NoMapping == << >>
Null == << >>
Some(v) == << v >>
NoCalendarMonth == [year |-> 0, month |-> 0, displayName |-> EmptyStr, reportDate |-> EmptyStr]
NoResolved == [parentAppId |-> EmptyStr, parentAppName |-> EmptyStr, isIAP |-> FALSE]

-----------------------------------------------------------------------------
(* Numbers *)

\* The numeric literals that occur in the reports drawn, with their value
\* in 1/1000 of a currency unit.
NumValue ==
    [t \in {"0", "0.00", "5.00", "-5.00", "7.00", "20.00", "50.00", "100.00", "208.66"} |->
        CASE t = "0" -> 0
          [] t = "0.00" -> 0
          [] t = "5.00" -> 5000
          [] t = "-5.00" -> 0 - 5000
          [] t = "7.00" -> 7000
          [] t = "20.00" -> 20000
          [] t = "50.00" -> 50000
          [] t = "100.00" -> 100000
          [] t = "208.66" -> 208660]

\* parseFloat(s) is a number (not NaN): leading whitespace is skipped, then
\* a numeric literal must follow.
IsNumeric(s) ==
    LET t == TrimStart(s) IN t # << >> /\ t[1] \in DOMAIN NumValue

\* parseFloat(s) || 0
ParseFloatOrZero(s) ==
    IF IsNumeric(s) THEN NumValue[TrimStart(s)[1]] ELSE 0

-----------------------------------------------------------------------------
(* Report parser *)

MinColumns == 12

COLUMNS ==
    [START_DATE |-> 0, END_DATE |-> 1, VENDOR_IDENTIFIER |-> 4,
     EXTENDED_PARTNER_SHARE |-> 7, PARTNER_SHARE_CURRENCY |-> 8,
     APPLE_IDENTIFIER |-> 10, TITLE |-> 12, PRODUCT_TYPE_IDENTIFIER |-> 15]

\* columns[idx] || ""
Col(columns, idx) ==
    IF idx + 1 <= Len(columns) THEN columns[idx + 1] ELSE EmptyStr

NoRow == [none |-> TRUE]

\* parseRow: the fields a later stage reads; the other fields of the row
\* are copied the same way and read by nothing.
parseRow(columns) ==
    IF Len(columns) < MinColumns THEN NoRow
    ELSE [startDate |-> Col(columns, COLUMNS.START_DATE),
          endDate |-> Col(columns, COLUMNS.END_DATE),
          vendorIdentifier |-> Col(columns, COLUMNS.VENDOR_IDENTIFIER),
          extendedPartnerShare |->
              ParseFloatOrZero(Col(columns, COLUMNS.EXTENDED_PARTNER_SHARE)),
          partnerShareCurrency |-> Col(columns, COLUMNS.PARTNER_SHARE_CURRENCY),
          appleIdentifier |-> Col(columns, COLUMNS.APPLE_IDENTIFIER),
          title |-> Col(columns, COLUMNS.TITLE),
          productTypeIdentifier |-> Col(columns, COLUMNS.PRODUCT_TYPE_IDENTIFIER)]

\* parseFinanceReport, entry: trim, split, and the length test.
ParseBegin ==
    /\ pc = "parse_start"
    /\ lines' = Split(Trim(tsvContent), NL)
    /\ rows' = << >>
    /\ i' = 1
    /\ pc' = IF Len(lines') <= 1 THEN "parse_done" ELSE "parse_loop"
    /\ UNCHANGED <<runVars, clockVars, payVars, calVars, recentVars, tsvContent, aggVars, products, rateVars, groupVars>>

\* ParseLine without the blank-line test.
ParseLine_NoBlankSkip ==
    /\ pc = "parse_loop"
    /\ i < Len(lines)
    /\ LET row == parseRow(Split(lines[i + 1], TAB))
       IN rows' = IF row = NoRow THEN rows ELSE Append(rows, row)
    /\ i' = i + 1
    /\ UNCHANGED <<runVars, clockVars, payVars, calVars, recentVars, pc, tsvContent, lines, aggVars, products, rateVars, groupVars>>

\* One iteration of the for loop; lines[i] is the source's 0-based index.
ParseLine ==
    /\ pc = "parse_loop"
    /\ i < Len(lines)
    /\ LET line == lines[i + 1]
           row == parseRow(Split(line, TAB))
       IN rows' = IF Trim(line) = EmptyStr \/ row = NoRow
                  THEN rows
                  ELSE Append(rows, row)
    /\ i' = i + 1
    /\ UNCHANGED <<runVars, clockVars, payVars, calVars, recentVars, pc, tsvContent, lines, aggVars, products, rateVars, groupVars>>

ParseReturn ==
    /\ pc = "parse_loop"
    /\ i >= Len(lines)
    /\ pc' = "parse_done"
    /\ UNCHANGED <<runVars, clockVars, payVars, calVars, recentVars, parseVars, aggVars, products, rateVars, groupVars>>

-----------------------------------------------------------------------------
(* Product aggregator *)

USD == << "USD" >>
AddOnPrefix == << "I", "A" >>

\* Map.get on a Map kept as a sequence of [key, value] in insertion order:
\* the index of the entry, 0 when absent.
MapIndex(m, key) ==
    IF \E n \in 1..Len(m) : m[n].key = key
    THEN CHOOSE n \in 1..Len(m) : m[n].key = key
    ELSE 0

\* Array.from(map.values())
MapValues(m) == [n \in 1..Len(m) |-> m[n].value]

\* obj[currency] = (obj[currency] || 0) + amount, summing replaced by overwriting
AddProceeds_Overwrite(byCurrency, currency, amount) ==
    IF currency \in DOMAIN byCurrency
    THEN [byCurrency EXCEPT ![currency] = amount]
    ELSE byCurrency @@ (currency :> amount)

\* obj[currency] = (obj[currency] || 0) + amount
AddProceeds(byCurrency, currency, amount) ==
    IF currency \in DOMAIN byCurrency
    THEN [byCurrency EXCEPT ![currency] = @ + amount]
    ELSE byCurrency @@ (currency :> amount)

\* The product created at the first sighting of a key.
NewProduct(row) ==
    [appleIdentifier |-> row.appleIdentifier,
     title |-> IF row.title # EmptyStr THEN row.title ELSE row.vendorIdentifier,
     sku |-> row.vendorIdentifier,
     productType |-> row.productTypeIdentifier,
     isIAP |-> StartsWith(row.productTypeIdentifier, AddOnPrefix),
     proceedsByCurrency |-> << >>,
     totalProceeds |-> 0]

\* The body of the loop of aggregateByProduct without the zero-proceeds test.
AggregateRow_KeepZero(pm, row) ==
    LET productKey == IF row.vendorIdentifier # EmptyStr
                      THEN row.vendorIdentifier ELSE row.appleIdentifier
        at == MapIndex(pm, productKey)
        withKey == IF at = 0
                   THEN Append(pm, [key |-> productKey, value |-> NewProduct(row)])
                   ELSE pm
        n == IF at = 0 THEN Len(withKey) ELSE at
        currency == IF row.partnerShareCurrency # EmptyStr
                    THEN row.partnerShareCurrency ELSE USD
    IN IF productKey = EmptyStr THEN pm
       ELSE [withKey EXCEPT ![n].value.proceedsByCurrency =
                AddProceeds(@, currency, row.extendedPartnerShare)]

\* The body of the loop of aggregateByProduct, the title taken from every row.
AggregateRow_LastTitle(pm, row) ==
    LET productKey == IF row.vendorIdentifier # EmptyStr
                      THEN row.vendorIdentifier ELSE row.appleIdentifier
        at == MapIndex(pm, productKey)
        withKey == IF at = 0
                   THEN Append(pm, [key |-> productKey, value |-> NewProduct(row)])
                   ELSE [pm EXCEPT ![at].value.title = NewProduct(row).title]
        n == IF at = 0 THEN Len(withKey) ELSE at
        currency == IF row.partnerShareCurrency # EmptyStr
                    THEN row.partnerShareCurrency ELSE USD
    IN IF row.extendedPartnerShare = 0 \/ productKey = EmptyStr THEN pm
       ELSE [withKey EXCEPT ![n].value.proceedsByCurrency =
                AddProceeds(@, currency, row.extendedPartnerShare)]

\* The body of the loop of aggregateByProduct: one row into the map.
AggregateRow(pm, row) ==
    LET productKey == IF row.vendorIdentifier # EmptyStr
                      THEN row.vendorIdentifier ELSE row.appleIdentifier
        at == MapIndex(pm, productKey)
        withKey == IF at = 0
                   THEN Append(pm, [key |-> productKey, value |-> NewProduct(row)])
                   ELSE pm
        n == IF at = 0 THEN Len(withKey) ELSE at
        currency == IF row.partnerShareCurrency # EmptyStr
                    THEN row.partnerShareCurrency ELSE USD
    IN IF row.extendedPartnerShare = 0 \/ productKey = EmptyStr THEN pm
       ELSE [withKey EXCEPT ![n].value.proceedsByCurrency =
                AddProceeds(@, currency, row.extendedPartnerShare)]

\* aggregateByProduct as a function of the rows.
RECURSIVE AggregateFrom(_, _)
AggregateFrom(pm, rs) ==
    IF rs = << >> THEN pm ELSE AggregateFrom(AggregateRow(pm, Head(rs)), Tail(rs))

aggregateByProduct(rs) == MapValues(AggregateFrom(<< >>, rs))

AggBegin ==
    /\ pc = "agg_start"
    /\ productMap' = << >>
    /\ rowIdx' = 0
    /\ pc' = "agg_loop"
    /\ UNCHANGED <<runVars, clockVars, payVars, calVars, recentVars, parseVars, products, rateVars, groupVars>>

AggRow ==
    /\ pc = "agg_loop"
    /\ rowIdx < Len(rows)
    /\ productMap' = AggregateRow(productMap, rows[rowIdx + 1])
    /\ rowIdx' = rowIdx + 1
    /\ UNCHANGED <<runVars, clockVars, payVars, calVars, recentVars, pc, parseVars, products, rateVars, groupVars>>

AggReturn ==
    /\ pc = "agg_loop"
    /\ rowIdx >= Len(rows)
    /\ products' = MapValues(productMap)
    /\ pc' = "agg_done"
    /\ UNCHANGED <<runVars, clockVars, payVars, calVars, recentVars, parseVars, aggVars, rateVars, groupVars>>

-----------------------------------------------------------------------------
(* Currency conversion *)

RateUnit == 10     \* the rate 1.0

\* amount * rate
Times(amount, rate) == (amount * rate) \div RateUnit

\* exchangeRates.get(currency) || 1
RateOf(rates, currency) ==
    IF currency \in DOMAIN rates /\ rates[currency] # 0
    THEN rates[currency] ELSE RateUnit

\* Sum of f over the finite set S.
RECURSIVE SumOver(_, _)
SumOver(S, f) ==
    IF S = {} THEN 0
    ELSE LET x == CHOOSE y \in S : TRUE IN f[x] + SumOver(S \ {x}, f)

\* The loop of convertProducts over one product, every rate taken as 1.
ConvertedTotal_NoRate(product, rates) ==
    SumOver(DOMAIN product.proceedsByCurrency,
            [c \in DOMAIN product.proceedsByCurrency |->
                Times(product.proceedsByCurrency[c], RateUnit)])

\* The loop of convertProducts over one product.
ConvertedTotal(product, rates) ==
    SumOver(DOMAIN product.proceedsByCurrency,
            [c \in DOMAIN product.proceedsByCurrency |->
                Times(product.proceedsByCurrency[c], RateOf(rates, c))])

\* convertProducts converting the first product only.
convertProducts_Retitled(ps, rates) ==
    [n \in 1..Len(ps) |-> [ps[n] EXCEPT !.totalProceeds = ConvertedTotal(ps[n], rates),
                                        !.title = ps[n].sku]]

convertProducts_FirstOnly(ps, rates) ==
    [n \in 1..Len(ps) |->
        IF n = 1 THEN [ps[n] EXCEPT !.totalProceeds = ConvertedTotal(ps[n], rates)]
        ELSE ps[n]]

convertProducts(ps, rates) ==
    [n \in 1..Len(ps) |-> [ps[n] EXCEPT !.totalProceeds = ConvertedTotal(ps[n], rates)]]

ConvertProducts ==
    /\ pc = "convert_start"
    /\ products' = convertProducts(products, exchangeRates)
    /\ pc' = "convert_done"
    /\ UNCHANGED <<runVars, clockVars, payVars, calVars, recentVars, parseVars, aggVars, rateVars, groupVars>>

-----------------------------------------------------------------------------
(* Rate lookups *)

\* rates.set(targetCurrency, 1) left out
InitialRates_Empty(target) == << >>

\* new Map() and rates.set(targetCurrency, 1)
InitialRates(target) == (target :> RateUnit)

\* fetchExchangeRates up to the await: the target's entry, and one lookup
\* issued per requested currency other than the target.
RatesBegin ==
    /\ pc = "rates_start"
    /\ exchangeRates' = InitialRates(targetCurrency)
    /\ lookups' = [c \in currencies \ {targetCurrency} |-> [state |-> "fetching", rate |-> 0]]
    /\ pc' = IF currencies \ {targetCurrency} = {} THEN "rates_done" ELSE "rates_wait"
    /\ UNCHANGED <<runVars, clockVars, payVars, calVars, recentVars, parseVars, aggVars, products, currencies, targetCurrency,
                   rateSource, groupVars>>

\* A failed lookup rejecting the whole fan-in instead of being caught.
CatchLookupFailure_Rethrow(c) ==
    /\ pc' = "rates_raised"
    /\ UNCHANGED lookups

\* The catch around one lookup: warn and answer 1.
CatchLookupFailure(c) ==
    /\ lookups' = [lookups EXCEPT ![c] = [state |-> "settled", rate |-> RateUnit]]
    /\ UNCHANGED pc

\* fetch(url) of one lookup settles: a network error or a non-ok status
\* throws, otherwise the body is awaited.
LookupResponse(c) ==
    /\ pc = "rates_wait"
    /\ c \in DOMAIN lookups
    /\ lookups[c].state = "fetching"
    /\ IF rateSource[c].kind \in {"network_error", "http_error"}
       THEN CatchLookupFailure(c)
       ELSE lookups' = [lookups EXCEPT ![c].state = "parsing"] /\ UNCHANGED pc
    /\ UNCHANGED <<runVars, clockVars, payVars, calVars, recentVars, parseVars, aggVars, products, currencies, targetCurrency,
                   rateSource, exchangeRates, groupVars>>

\* response.json() of one lookup settles: a missing or zero rate throws.
LookupBody(c) ==
    /\ pc = "rates_wait"
    /\ c \in DOMAIN lookups
    /\ lookups[c].state = "parsing"
    /\ IF rateSource[c].rate = 0
       THEN CatchLookupFailure(c)
       ELSE /\ lookups' = [lookups EXCEPT ![c] = [state |-> "settled",
                                                   rate |-> rateSource[c].rate]]
            /\ UNCHANGED pc
    /\ UNCHANGED <<runVars, clockVars, payVars, calVars, recentVars, parseVars, aggVars, products, currencies, targetCurrency,
                   rateSource, exchangeRates, groupVars>>

\* The fan-in firing as soon as any lookup has settled.
RatesFanIn_Any ==
    /\ pc = "rates_wait"
    /\ \E c \in DOMAIN lookups : lookups[c].state = "settled"
    /\ exchangeRates' = [c \in DOMAIN exchangeRates
                               \cup {d \in DOMAIN lookups : lookups[d].state = "settled"} |->
                            IF c \in DOMAIN lookups THEN lookups[c].rate
                            ELSE exchangeRates[c]]
    /\ pc' = "rates_done"
    /\ UNCHANGED <<runVars, clockVars, payVars, calVars, recentVars, parseVars, aggVars, products, currencies, targetCurrency,
                   rateSource, lookups, groupVars>>

\* Promise.all resolves once every lookup has settled; the results are
\* written into the table and it is returned.
RatesFanIn ==
    /\ pc = "rates_wait"
    /\ \A c \in DOMAIN lookups : lookups[c].state = "settled"
    /\ exchangeRates' = [c \in DOMAIN exchangeRates \cup DOMAIN lookups |->
                            IF c \in DOMAIN lookups THEN lookups[c].rate
                            ELSE exchangeRates[c]]
    /\ pc' = "rates_done"
    /\ UNCHANGED <<runVars, clockVars, payVars, calVars, recentVars, parseVars, aggVars, products, currencies, targetCurrency,
                   rateSource, lookups, groupVars>>

\* getUniqueCurrencies
getUniqueCurrencies(ps) == UNION {DOMAIN ps[n].proceedsByCurrency : n \in 1..Len(ps)}

-----------------------------------------------------------------------------
(* Grouping under the parent app *)

\* Array.prototype.sort((a, b) => b.totalProceeds - a.totalProceeds): stable,
\* descending by totalProceeds.
InsertDesc(x, sorted) ==
    LET after == {k \in 1..Len(sorted) : sorted[k].totalProceeds <= x.totalProceeds}
        at == IF after = {} THEN Len(sorted) + 1 ELSE SetMin(after)
    IN SubSeq(sorted, 1, at - 1) \o << x >> \o SubSeq(sorted, at, Len(sorted))

RECURSIVE SortDesc(_)
SortDesc(s) ==
    IF s = << >> THEN << >> ELSE InsertDesc(Head(s), SortDesc(Tail(s)))

\* mapping.get(product.sku) || mapping.get(product.appleIdentifier), the two
\* lookups in the other order
LookupInfo_IdFirst(mapping, product) ==
    IF product.appleIdentifier \in DOMAIN mapping
    THEN << mapping[product.appleIdentifier] >>
    ELSE IF product.sku \in DOMAIN mapping
         THEN << mapping[product.sku] >>
         ELSE << >>

\* mapping.get(product.sku) || mapping.get(product.appleIdentifier): a
\* one-element sequence holding the entry, empty when neither key is mapped.
LookupInfo(mapping, product) ==
    IF product.sku \in DOMAIN mapping
    THEN << mapping[product.sku] >>
    ELSE IF product.appleIdentifier \in DOMAIN mapping
         THEN << mapping[product.appleIdentifier] >>
         ELSE << >>

\* The locals of one iteration, the fallback id taken from the SKU first.
ResolveParent_SkuFirst(mapping, product) ==
    LET info == LookupInfo(mapping, product)
    IN IF info # << >>
       THEN [parentAppName |-> info[1].parentAppName,
             parentAppId |-> info[1].parentAppId,
             isIAP |-> info[1].isIAP]
       ELSE [parentAppName |-> product.title,
             parentAppId |-> IF product.sku # EmptyStr
                             THEN product.sku ELSE product.appleIdentifier,
             isIAP |-> product.isIAP]

\* The locals parentAppName, parentAppId and isIAP of one iteration.
ResolveParent(mapping, product) ==
    LET info == LookupInfo(mapping, product)
    IN IF info # << >>
       THEN [parentAppName |-> info[1].parentAppName,
             parentAppId |-> info[1].parentAppId,
             isIAP |-> info[1].isIAP]
       ELSE [parentAppName |-> product.title,
             parentAppId |-> IF product.appleIdentifier # EmptyStr
                             THEN product.appleIdentifier ELSE product.sku,
             isIAP |-> product.isIAP]

NewApp(parent) ==
    [appleIdentifier |-> parent.parentAppId,
     title |-> parent.parentAppName,
     sku |-> EmptyStr,
     totalProceeds |-> 0,
     appProceeds |-> 0,
     iaps |-> << >>]

\* The placement of a product, an add-on counted in the direct proceeds too.
PlaceProduct_AddOnUncounted(app, product, isIAP) ==
    [app EXCEPT !.iaps = IF isIAP THEN Append(@, product) ELSE @,
                !.appProceeds = IF isIAP THEN @ ELSE @ + product.totalProceeds,
                !.totalProceeds = IF isIAP THEN @ ELSE @ + product.totalProceeds]

PlaceProduct_AlsoDirect(app, product, isIAP) ==
    [app EXCEPT !.iaps = IF isIAP THEN Append(@, product) ELSE @,
                !.appProceeds = @ + product.totalProceeds,
                !.totalProceeds = @ + product.totalProceeds]

\* The placement of a product in its parent entry.
PlaceProduct(app, product, isIAP) ==
    [app EXCEPT !.iaps = IF isIAP THEN Append(@, product) ELSE @,
                !.appProceeds = IF isIAP THEN @ ELSE @ + product.totalProceeds,
                !.totalProceeds = @ + product.totalProceeds]

\* One iteration of the loop of groupByParentApp.
GroupProduct(am, mapping, product) ==
    LET parent == ResolveParent(mapping, product)
        at == MapIndex(am, parent.parentAppId)
        withApp == IF at = 0
                   THEN Append(am, [key |-> parent.parentAppId, value |-> NewApp(parent)])
                   ELSE am
        n == IF at = 0 THEN Len(withApp) ELSE at
    IN [withApp EXCEPT ![n].value = PlaceProduct(@, product, parent.isIAP)]

GroupBegin ==
    /\ pc = "group_start"
    /\ appMap' = << >>
    /\ prodIdx' = 0
    /\ pc' = "group_loop"
    /\ UNCHANGED <<runVars, clockVars, payVars, calVars, recentVars, parseVars, aggVars, products, rateVars, productMapping, apps, resolved>>

GroupStep ==
    /\ pc = "group_loop"
    /\ prodIdx < Len(products)
    /\ resolved' = ResolveParent(productMapping, products[prodIdx + 1])
    /\ appMap' = GroupProduct(appMap, productMapping, products[prodIdx + 1])
    /\ prodIdx' = prodIdx + 1
    /\ UNCHANGED <<runVars, clockVars, payVars, calVars, recentVars, pc, parseVars, aggVars, products, rateVars, productMapping, apps>>

\* After the loop: the add-on list of every entry is sorted in place and the
\* entries are returned in insertion order.
GroupReturn ==
    /\ pc = "group_loop"
    /\ prodIdx >= Len(products)
    /\ appMap' = [n \in 1..Len(appMap) |->
                     [appMap[n] EXCEPT !.value.iaps = SortDesc(@)]]
    /\ apps' = MapValues(appMap')
    /\ pc' = "group_done"
    /\ UNCHANGED <<runVars, clockVars, payVars, calVars, recentVars, parseVars, aggVars, products, rateVars, productMapping, prodIdx, resolved>>

-----------------------------------------------------------------------------
(* Dates: a Date at local midnight is the number of its day, counted from   *)
(* 1970-01-01; the calendar is the proleptic Gregorian one, as in Date.     *)

\* Day number of the civil date y-m-d, m in 1..12.
DaysFromCivil(y, m, d) ==
    LET yy == IF m <= 2 THEN y - 1 ELSE y
        era == yy \div 400
        yoe == yy - era * 400
        mp == IF m > 2 THEN m - 3 ELSE m + 9
        doy == (153 * mp + 2) \div 5 + d - 1
        doe == yoe * 365 + yoe \div 4 - yoe \div 100 + doy
    IN era * 146097 + doe - 719468

\* The civil date of a day number.
CivilFromDays(z) ==
    LET zz == z + 719468
        era == zz \div 146097
        doe == zz - era * 146097
        yoe == (doe - doe \div 1460 + doe \div 36524 - doe \div 146096) \div 365
        doy == doe - (365 * yoe + yoe \div 4 - yoe \div 100)
        mp == (5 * doy + 2) \div 153
        d == doy - (153 * mp + 2) \div 5 + 1
        m == IF mp < 10 THEN mp + 3 ELSE mp - 9
    IN [year |-> yoe + era * 400 + (IF m <= 2 THEN 1 ELSE 0), month |-> m, day |-> d]

\* new Date(y, monthIndex, d): a month index outside 0..11 and a day
\* outside the month roll over.
NewDate(y, monthIndex, d) ==
    DaysFromCivil(y + monthIndex \div 12, (monthIndex % 12) + 1, 1) + d - 1

GetFullYear(date) == CivilFromDays(date).year
GetMonth(date) == CivilFromDays(date).month - 1
GetDate(date) == CivilFromDays(date).day

\* Number.prototype.toString of a natural number, one digit per token.
Digit(n) == CASE n = 0 -> "0" [] n = 1 -> "1" [] n = 2 -> "2" [] n = 3 -> "3"
              [] n = 4 -> "4" [] n = 5 -> "5" [] n = 6 -> "6" [] n = 7 -> "7"
              [] n = 8 -> "8" [] n = 9 -> "9"

RECURSIVE NumberToString(_)
NumberToString(n) ==
    IF n < 10 THEN << Digit(n) >> ELSE Append(NumberToString(n \div 10), Digit(n % 10))

\* String.prototype.padStart(len, fill) for a one-character fill.
RECURSIVE PadStart(_, _, _)
PadStart(s, len, fill) ==
    IF Len(s) >= len THEN s ELSE PadStart(<< fill >> \o s, len, fill)

ShortMonths ==
    << "Jan", "Feb", "Mar", "Apr", "May", "Jun",
       "Jul", "Aug", "Sep", "Oct", "Nov", "Dec" >>

\* formatDateForDisplay: "Nov 1, 2025"
formatDateForDisplay(date) ==
    << ShortMonths[GetMonth(date) + 1], SP >> \o NumberToString(GetDate(date))
        \o << ",", SP >> \o NumberToString(GetFullYear(date))

\* a >= b for the clock a and the Date b at local midnight
IsAfter_OrEqual(clock, date) ==
    clock.day >= date

\* a > b for the clock a and the Date b at local midnight
IsAfter(clock, date) ==
    clock.day > date \/ (clock.day = date /\ clock.late)

-----------------------------------------------------------------------------
(* Payment estimator *)

Sentinel == << "Total_Amount" >>

PaymentLagDays == 33

\* The tokens that are two digits and four digits, with their value.
TwoDigits == {"01", "09", "10", "12", "30", "31"}
FourDigits == {"2024", "2025"}

DigitsValue ==
    [t \in TwoDigits \cup FourDigits |->
        CASE t = "01" -> 1 [] t = "09" -> 9 [] t = "10" -> 10 [] t = "12" -> 12
          [] t = "30" -> 30 [] t = "31" -> 31
          [] t = "2024" -> 2024 [] t = "2025" -> 2025]

\* /^(\d{2})\/(\d{2})\/(\d{4})$/.test(s)
DatePattern(s) ==
    /\ Len(s) = 5
    /\ s[1] \in TwoDigits /\ s[2] = "/" /\ s[3] \in TwoDigits /\ s[4] = "/"
    /\ s[5] \in FourDigits

\* parseInt of a run of digits
ParseInt(s) == DigitsValue[s[1]]

\* The paymentInfo object as initialized.
NoPaymentInfo ==
    [paymentDate |-> Null, paymentAmount |-> Null, paymentCurrency |-> << "USD" >>,
     exchangeRate |-> Null, isPending |-> TRUE, estimatedPaymentDate |-> Null,
     fiscalPeriodStart |-> EmptyStr, fiscalPeriodEnd |-> EmptyStr, totalOwed |-> Null]

\* The body of the scanning loop, a NaN amount stored as 0.
ScanLine_ZeroForNaN(info, line) ==
    LET trimmedLine == Trim(line)
        columns == Split(trimmedLine, TAB)
    IN IF trimmedLine = EmptyStr THEN info
       ELSE IF columns[1] = Sentinel /\ Len(columns) >= 2
       THEN [info EXCEPT !.totalOwed = Some(ParseFloatOrZero(columns[2]))]
       ELSE IF /\ info.fiscalPeriodStart = EmptyStr
               /\ Len(columns) >= 2
               /\ DatePattern(columns[1]) /\ DatePattern(columns[2])
       THEN [info EXCEPT !.fiscalPeriodStart = columns[1],
                         !.fiscalPeriodEnd = columns[2]]
       ELSE info

\* The body of the scanning loop without the test of fiscalPeriodStart.
ScanLine_LastMatch(info, line) ==
    LET trimmedLine == Trim(line)
        columns == Split(trimmedLine, TAB)
    IN IF trimmedLine = EmptyStr THEN info
       ELSE IF columns[1] = Sentinel /\ Len(columns) >= 2
       THEN IF IsNumeric(columns[2])
            THEN [info EXCEPT !.totalOwed = Some(ParseFloatOrZero(columns[2]))]
            ELSE info
       ELSE IF /\ Len(columns) >= 2
               /\ DatePattern(columns[1]) /\ DatePattern(columns[2])
       THEN [info EXCEPT !.fiscalPeriodStart = columns[1],
                         !.fiscalPeriodEnd = columns[2]]
       ELSE info

\* The body of the scanning loop for one line.
ScanLine(info, line) ==
    LET trimmedLine == Trim(line)
        columns == Split(trimmedLine, TAB)
    IN IF trimmedLine = EmptyStr THEN info
       ELSE IF columns[1] = Sentinel /\ Len(columns) >= 2
       THEN IF IsNumeric(columns[2])
            THEN [info EXCEPT !.totalOwed = Some(ParseFloatOrZero(columns[2]))]
            ELSE info
       ELSE IF /\ info.fiscalPeriodStart = EmptyStr
               /\ Len(columns) >= 2
               /\ DatePattern(columns[1]) /\ DatePattern(columns[2])
       THEN [info EXCEPT !.fiscalPeriodStart = columns[1],
                         !.fiscalPeriodEnd = columns[2]]
       ELSE info

\* periodEndDate: the parameter when given, else the captured end date.
PeriodEndDate(info, given) ==
    IF given # Null THEN given
    ELSE IF info.fiscalPeriodEnd # EmptyStr
    THEN LET parts == Split(info.fiscalPeriodEnd, "/")
         IN IF Len(parts) = 3
            THEN Some(NewDate(ParseInt(parts[3]), ParseInt(parts[1]) - 1,
                              ParseInt(parts[2])))
            ELSE Null
    ELSE Null

\* The estimate a calendar month after the period end.
EstimatedPaymentDate_NextMonth(periodEndDate) ==
    NewDate(GetFullYear(periodEndDate), GetMonth(periodEndDate) + 1,
            GetDate(periodEndDate))

\* new Date(periodEndDate) and setDate(getDate() + 33)
EstimatedPaymentDate(periodEndDate) ==
    NewDate(GetFullYear(periodEndDate), GetMonth(periodEndDate),
            GetDate(periodEndDate) + PaymentLagDays)

\* The estimate and the payment status written into paymentInfo.
Estimate(info, given, clock) ==
    LET periodEndDate == PeriodEndDate(info, given)
    IN IF periodEndDate = Null THEN info
       ELSE LET estimatedPaymentDate == EstimatedPaymentDate(periodEndDate[1])
                withDate == [info EXCEPT !.estimatedPaymentDate =
                                Some(formatDateForDisplay(estimatedPaymentDate))]
            IN IF IsAfter(clock, estimatedPaymentDate)
               THEN [withDate EXCEPT
                        !.isPending = FALSE,
                        !.paymentDate = Some(formatDateForDisplay(estimatedPaymentDate)),
                        !.paymentAmount = withDate.totalOwed]
               ELSE withDate

\* The value returned, a captured period alone not counted as useful data.
ReturnValue_TotalOnly(info) ==
    IF info.totalOwed # Null THEN Some(info) ELSE Null

\* The value returned: the object when useful data was found.
ReturnValue(info) ==
    IF info.totalOwed # Null \/ info.fiscalPeriodEnd # EmptyStr
    THEN Some(info) ELSE Null

\* parsePaymentInfo, entry: the empty-text test, trim and split.
PayBegin ==
    /\ pc = "pay_start"
    /\ IF Trim(tsvContent) = EmptyStr
       THEN /\ payResult' = Null
            /\ pc' = "pay_done"
            /\ UNCHANGED <<runVars, payLines, payIdx, paymentInfo>>
       ELSE /\ payLines' = Split(Trim(tsvContent), NL)
            /\ payIdx' = 0
            /\ paymentInfo' = NoPaymentInfo
            /\ pc' = "pay_loop"
            /\ UNCHANGED payResult
    /\ UNCHANGED <<runVars, parseVars, aggVars, products, rateVars, groupVars,
                   clockVars, fiscalPeriodEndDate, calVars, recentVars>>

\* One iteration of the scanning loop.
PayLine ==
    /\ pc = "pay_loop"
    /\ payIdx < Len(payLines)
    /\ paymentInfo' = ScanLine(paymentInfo, payLines[payIdx + 1])
    /\ payIdx' = payIdx + 1
    /\ UNCHANGED <<runVars, pc, parseVars, aggVars, products, rateVars, groupVars,
                   clockVars, fiscalPeriodEndDate, payLines, payResult,
                   calVars, recentVars>>

\* After the loop: the estimate, the status and the return.
PayReturn ==
    /\ pc = "pay_loop"
    /\ payIdx >= Len(payLines)
    /\ paymentInfo' = Estimate(paymentInfo, fiscalPeriodEndDate, now)
    /\ payResult' = ReturnValue(paymentInfo')
    /\ pc' = "pay_done"
    /\ UNCHANGED <<runVars, parseVars, aggVars, products, rateVars, groupVars,
                   clockVars, fiscalPeriodEndDate, payLines, payIdx,
                   calVars, recentVars>>

-----------------------------------------------------------------------------
(* Calendar months and fiscal months *)

MONTH_NAMES ==
    << "January", "February", "March", "April", "May", "June",
       "July", "August", "September", "October", "November", "December" >>

calendarToFiscalMonth(calendarMonth) ==
    IF calendarMonth >= 10 THEN calendarMonth - 9 ELSE calendarMonth + 3

\* getFiscalYear without the step into the next fiscal year.
getFiscalYear_SameYear(calendarYear, calendarMonth) == calendarYear

getFiscalYear(calendarYear, calendarMonth) ==
    IF calendarMonth >= 10 THEN calendarYear + 1 ELSE calendarYear

createCalendarMonth(calendarYear, calendarMonth) ==
    LET monthName == MONTH_NAMES[calendarMonth]
        fiscalMonth == calendarToFiscalMonth(calendarMonth)
        fiscalYear == getFiscalYear(calendarYear, calendarMonth)
        reportMonth == PadStart(NumberToString(fiscalMonth), 2, "0")
    IN [year |-> calendarYear,
        month |-> calendarMonth,
        displayName |-> << monthName, SP >> \o NumberToString(calendarYear),
        reportDate |-> NumberToString(fiscalYear) \o << "-" >> \o reportMonth]

\* fiscalMonthToCalendarMonth returning the 1-based month.
fiscalMonthToCalendarMonth_OneBased(fiscalMonth) == ((fiscalMonth + 8) % 12) + 1

\* fiscalMonthToCalendarMonth: the 0-based index of the calendar month.
fiscalMonthToCalendarMonth(fiscalMonth) == (fiscalMonth + 8) % 12

\* A call of createCalendarMonth.
CreateCalendarMonth ==
    /\ pc = "cal_start"
    /\ calResult' = createCalendarMonth(calYear, calMonth)
    /\ pc' = "cal_done"
    /\ UNCHANGED <<runVars, parseVars, aggVars, products, rateVars, groupVars, clockVars,
                   payVars, calYear, calMonth, fiscalIn, fiscalOut, recentVars>>

\* A call of fiscalMonthToCalendarMonth.
FiscalMonthToCalendarMonth ==
    /\ pc = "fiscal_start"
    /\ fiscalOut' = fiscalMonthToCalendarMonth(fiscalIn)
    /\ pc' = "fiscal_done"
    /\ UNCHANGED <<runVars, parseVars, aggVars, products, rateVars, groupVars, clockVars,
                   payVars, calYear, calMonth, calResult, fiscalIn, recentVars>>

\* The day of the month before which last month's report is taken as not
\* ready.
ReadyDay == 10

\* month--, with the step into the previous year
PreviousMonth(ym) ==
    IF ym.month - 1 < 0 THEN [year |-> ym.year - 1, month |-> 11]
    ELSE [year |-> ym.year, month |-> ym.month - 1]

\* getRecentCalendarMonths up to the loop.
RecentBegin ==
    /\ pc = "recent_start"
    /\ LET today == [year |-> GetFullYear(now.day), month |-> GetMonth(now.day)]
           start == IF GetDate(now.day) < ReadyDay THEN PreviousMonth(today) ELSE today
       IN /\ year' = start.year
          /\ month' = start.month
    /\ months' = << >>
    /\ loopIdx' = 0
    /\ pc' = "recent_loop"
    /\ UNCHANGED <<runVars, parseVars, aggVars, products, rateVars, groupVars, clockVars,
                   payVars, calVars, count>>

\* One iteration of the loop of getRecentCalendarMonths.
RecentPush ==
    /\ pc = "recent_loop"
    /\ loopIdx < count
    /\ months' = Append(months, createCalendarMonth(year, month + 1))
    /\ LET before == PreviousMonth([year |-> year, month |-> month])
       IN /\ year' = before.year
          /\ month' = before.month
    /\ loopIdx' = loopIdx + 1
    /\ UNCHANGED <<runVars, pc, parseVars, aggVars, products, rateVars, groupVars, clockVars,
                   payVars, calVars, count>>

RecentReturn ==
    /\ pc = "recent_loop"
    /\ loopIdx >= count
    /\ pc' = "recent_done"
    /\ UNCHANGED <<runVars, parseVars, aggVars, products, rateVars, groupVars, clockVars,
                   payVars, calVars, recentVars>>

-----------------------------------------------------------------------------
(* main, from the parsing of the report on *)

MainNoRows ==
    /\ pc = "parse_done"
    /\ Len(rows) = 0
    /\ pc' = "exit_no_rows"
    /\ UNCHANGED <<runVars, clockVars, payVars, calVars, recentVars, parseVars, aggVars, products, rateVars, groupVars>>

MainAggregate ==
    /\ pc = "parse_done"
    /\ Len(rows) # 0
    /\ pc' = "agg_start"
    /\ UNCHANGED <<runVars, clockVars, payVars, calVars, recentVars, parseVars, aggVars, products, rateVars, groupVars>>

MainNoProducts ==
    /\ pc = "agg_done"
    /\ Len(products) = 0
    /\ pc' = "exit_no_products"
    /\ UNCHANGED <<runVars, clockVars, payVars, calVars, recentVars, parseVars, aggVars, products, rateVars, groupVars>>

\* uniqueCurrencies = getUniqueCurrencies(products), after the products.length test
MainFetchRates_Unguarded ==
    /\ pc = "agg_done"
    /\ currencies' = getUniqueCurrencies(products)
    /\ pc' = "rates_start"
    /\ UNCHANGED <<runVars, clockVars, payVars, calVars, recentVars, parseVars, aggVars, products, targetCurrency, rateSource,
                   lookups, exchangeRates, groupVars>>

MainFetchRates ==
    /\ pc = "agg_done"
    /\ Len(products) # 0
    /\ currencies' = getUniqueCurrencies(products)
    /\ pc' = "rates_start"
    /\ UNCHANGED <<runVars, clockVars, payVars, calVars, recentVars, parseVars, aggVars, products, targetCurrency, rateSource,
                   lookups, exchangeRates, groupVars>>

MainConvert ==
    /\ pc = "rates_done"
    /\ pc' = "convert_start"
    /\ UNCHANGED <<runVars, clockVars, payVars, calVars, recentVars, parseVars, aggVars, products, rateVars, groupVars>>

\* const paymentInfo = parsePaymentInfo(reportContent)
MainPaymentInfo ==
    /\ pc = "convert_done"
    /\ pc' = "pay_start"
    /\ UNCHANGED <<runVars, clockVars, payVars, calVars, recentVars, parseVars, aggVars, products, rateVars, groupVars>>

\* if (productMapping && productMapping.size > 0) groupByParentApp(...)
MainGroup_Always ==
    /\ pc = "pay_done"
    /\ pc' = "group_start"
    /\ UNCHANGED <<runVars, clockVars, payVars, calVars, recentVars, parseVars, aggVars, products, rateVars, groupVars>>

MainGroup ==
    /\ pc = "pay_done"
    /\ DOMAIN productMapping # {}
    /\ pc' = "group_start"
    /\ UNCHANGED <<runVars, clockVars, payVars, calVars, recentVars, parseVars, aggVars, products, rateVars, groupVars>>

\* The flat display: products.sort, then displayFlatList.
MainDisplayFlat ==
    /\ pc = "pay_done"
    /\ DOMAIN productMapping = {}
    /\ products' = SortDesc(products)
    /\ pc' = "done_flat"
    /\ UNCHANGED <<runVars, clockVars, payVars, calVars, recentVars, parseVars, aggVars, rateVars, groupVars>>

\* The tree display: apps.sort, then displayEarningsTree.
MainDisplayTree ==
    /\ pc = "group_done"
    /\ apps' = SortDesc(apps)
    /\ pc' = "done_tree"
    /\ UNCHANGED <<runVars, clockVars, payVars, calVars, recentVars, parseVars, aggVars, products, rateVars, productMapping,
                   prodIdx, appMap, resolved>>

\* displayEarningsTree: grandTotal, the sum of the entries' totals.
GrandTotal(entries) ==
    SumOver(1..Len(entries), [n \in 1..Len(entries) |-> entries[n].totalProceeds])

-----------------------------------------------------------------------------
(* Inputs of the parser specification *)

\* A line of n columns: column idx (0-based) is f[idx] when f defines it
\* and the filler word otherwise.
MkColumns(n, f) ==
    [c \in 1..n |-> IF (c - 1) \in DOMAIN f THEN f[c - 1] ELSE << "x" >>]

MkLine(n, f) == Join(MkColumns(n, f), TAB)

SkuOnly(sku) == (COLUMNS.VENDOR_IDENTIFIER :> << sku >>)

BlankLine == EmptyStr
TabsLine == Join([c \in 1..MinColumns |-> EmptyStr], TAB)
FooterLine == << "Total_Amount", TAB, "208.66" >>
ShortLine == MkLine(MinColumns - 1, SkuOnly("S"))
MinLine == MkLine(MinColumns, SkuOnly("A"))
TrailLine == MkLine(MinColumns, SkuOnly("B") @@ ((MinColumns - 1) :> EmptyStr))
FullLine == MkLine(22, SkuOnly("C"))

ParseLineShapes ==
    {BlankLine, TabsLine, FooterLine, ShortLine, MinLine, TrailLine, FullLine}

RECURSIVE SeqsUpTo(_, _)
SeqsUpTo(S, n) ==
    IF n = 0 THEN {<< >>}
    ELSE LET shorter == SeqsUpTo(S, n - 1)
         IN shorter \cup {Append(q, x) : q \in {r \in shorter : Len(r) = n - 1}, x \in S}

ParseReports == {Join(ls, NL) : ls \in SeqsUpTo(ParseLineShapes, MaxLines)}

IdleClock == now = [day |-> 0, late |-> FALSE]

IdlePay ==
    /\ fiscalPeriodEndDate = Null /\ payLines = << >> /\ payIdx = 0
    /\ paymentInfo = NoPaymentInfo /\ payResult = Null

IdleCal ==
    /\ calYear = 0 /\ calMonth = 0 /\ calResult = NoCalendarMonth
    /\ fiscalIn = 0 /\ fiscalOut = 0

IdleRecent ==
    /\ count = 0 /\ year = 0 /\ month = 0 /\ loopIdx = 0 /\ months = << >>

IdleBuild ==
    /\ apiSource = << >> /\ fetchedApps = << >> /\ appIdx = 0
    /\ builtMapping = NoMapping

IdleRun ==
    /\ argv = {} /\ configured = {} /\ mappingCacheFile = Null /\ IdleBuild
    /\ selectedMonth = NoCalendarMonth /\ reportCache = << >>
    /\ response = Null /\ fetched = EmptyStr /\ thrown = Null /\ io = << >>
    /\ runs = 0

IdleParse ==
    /\ tsvContent = EmptyStr /\ lines = << >> /\ i = 0 /\ rows = << >>

IdleAgg ==
    /\ rowIdx = 0 /\ productMap = << >>

IdleRates ==
    /\ currencies = {} /\ targetCurrency = << "USD" >> /\ rateSource = << >>
    /\ lookups = << >> /\ exchangeRates = NoRates

IdleGroup ==
    /\ productMapping = NoMapping /\ prodIdx = 0 /\ appMap = << >> /\ apps = << >>
    /\ resolved = NoResolved

InitParse ==
    /\ pc = "parse_start"
    /\ tsvContent \in ParseReports
    /\ lines = << >> /\ i = 0 /\ rows = << >>
    /\ products = NoProducts
    /\ IdleAgg /\ IdleCal /\ IdleRecent /\ IdleClock /\ IdlePay /\ IdleRates /\ IdleGroup /\ IdleRun

NextParse == ParseBegin \/ ParseLine \/ ParseReturn

SpecParse == InitParse /\ [][NextParse]_vars

-----------------------------------------------------------------------------
(* Inputs of the aggregator and converter specifications *)

Word(w) == IF w = "" THEN EmptyStr ELSE << w >>

\* A full line of the report with these columns.
DataLine(sku, apple, title, type, currency, extended) ==
    MkLine(22,
        (COLUMNS.VENDOR_IDENTIFIER :> Word(sku))
        @@ (COLUMNS.APPLE_IDENTIFIER :> Word(apple))
        @@ (COLUMNS.TITLE :> Word(title))
        @@ (COLUMNS.PRODUCT_TYPE_IDENTIFIER :> type)
        @@ (COLUMNS.PARTNER_SHARE_CURRENCY :> Word(currency))
        @@ (COLUMNS.EXTENDED_PARTNER_SHARE :> Word(extended)))

\* The row the parser returns for that line.
DataRow(sku, apple, title, type, currency, extended) ==
    parseRow(Split(DataLine(sku, apple, title, type, currency, extended), TAB))

TypeApp == << "1" >>
TypeAddOn == << "I", "A", "1" >>
TypeI == << "I" >>

AggRowChoices ==
    { DataRow("A1", "100", "T1", TypeApp, "USD", "5.00"),
      DataRow("A1", "100", "T2", TypeAddOn, "EUR", "7.00"),
      DataRow("A1", "100", "T2", TypeAddOn, "USD", "0.00"),
      DataRow("A1", "100", "T1", TypeApp, "USD", "-5.00"),
      DataRow("", "200", "T3", TypeAddOn, "", "5.00"),
      DataRow("", "", "T4", TypeApp, "USD", "5.00"),
      DataRow("B1", "300", "", TypeAddOn, "EUR", "abc"),
      DataRow("B1", "300", "", TypeI, "USD", "20.00") }

AggRowSeqs == SeqsUpTo(AggRowChoices, MaxRows)

InitAgg ==
    /\ pc = "agg_start"
    /\ rows \in AggRowSeqs
    /\ tsvContent = EmptyStr /\ lines = << >> /\ i = 0
    /\ products = NoProducts
    /\ IdleAgg /\ IdleCal /\ IdleRecent /\ IdleClock /\ IdlePay /\ IdleRates /\ IdleGroup /\ IdleRun

NextAgg == AggBegin \/ AggRow \/ AggReturn

SpecAgg == InitAgg /\ [][NextAgg]_vars

Currencies == {USD, << "EUR" >>}
RateChoices == {RateUnit, 11, 20}

InitConvert ==
    /\ pc = "convert_start"
    /\ products \in {aggregateByProduct(rs) : rs \in AggRowSeqs}
    /\ exchangeRates \in [Currencies -> RateChoices]
    /\ IdleParse /\ IdleAgg /\ IdleCal /\ IdleRecent /\ IdleClock /\ IdlePay /\ IdleRun
    /\ currencies = {} /\ targetCurrency = USD /\ rateSource = << >>
    /\ lookups = << >>
    /\ IdleGroup

NextConvert == ConvertProducts

SpecConvert == InitConvert /\ [][NextConvert]_vars

-----------------------------------------------------------------------------
(* Inputs of the rate lookup specification *)

EUR == << "EUR" >>
GBP == << "GBP" >>
SGD == << "SGD" >>

AllCurrencies == {USD, EUR, GBP}

\* What the rate source answers to one lookup: no response, a non-ok
\* status, a body without the rate, or a rate.
RateOutcomes ==
    {[kind |-> "network_error", rate |-> 0],
     [kind |-> "http_error", rate |-> 0],
     [kind |-> "ok", rate |-> 0],
     [kind |-> "ok", rate |-> 11],
     [kind |-> "ok", rate |-> 20]}

InitRates ==
    /\ pc = "rates_start"
    /\ currencies \in SUBSET AllCurrencies
    /\ targetCurrency \in {USD, SGD}
    /\ rateSource \in [AllCurrencies -> RateOutcomes]
    /\ lookups = << >>
    /\ exchangeRates = NoRates
    /\ products = NoProducts
    /\ IdleParse /\ IdleAgg /\ IdleCal /\ IdleRecent /\ IdleClock /\ IdlePay /\ IdleGroup /\ IdleRun

NextRates ==
    \/ RatesBegin
    \/ \E c \in AllCurrencies : LookupResponse(c)
    \/ \E c \in AllCurrencies : LookupBody(c)
    \/ RatesFanIn

SpecRates == InitRates /\ [][NextRates]_vars

-----------------------------------------------------------------------------
(* Inputs of the grouping specification *)

\* The converted product the pipeline yields for a single row in USD.
Product(sku, apple, title, type, extended) ==
    convertProducts(
        aggregateByProduct(<< DataRow(sku, apple, title, type, "USD", extended) >>),
        (USD :> RateUnit))[1]

ProductChoices ==
    { Product("A1", "100", "One", TypeApp, "100.00"),
      Product("A1IAP", "101", "Gems", TypeAddOn, "50.00"),
      Product("B1", "200", "Bee", TypeApp, "20.00"),
      Product("", "300", "Coins", TypeAddOn, "7.00"),
      Product("S2", "300", "Other", TypeApp, "-5.00"),
      Product("X1", "100", "Pass", TypeAddOn, "50.00"),
      Product("C1", "", "Sea", TypeApp, "5.00") }

\* Product lists as the aggregator returns them: no key twice.
ProductLists ==
    {ps \in SeqsUpTo(ProductChoices, MaxProducts) :
        \A a, b \in 1..Len(ps) : a # b => ps[a] # ps[b]}

\* The entries buildProductMapping writes for an app and for an add-on.
AppEntry(appId, appName) ==
    (Word(appId) :> [parentAppId |-> Word(appId), parentAppName |-> Word(appName),
                     isIAP |-> FALSE])

AddOnEntries(productId, id, appId, appName) ==
    LET info == [parentAppId |-> Word(appId), parentAppName |-> Word(appName),
                 isIAP |-> TRUE]
    IN (Word(productId) :> info) @@ (Word(id) :> info)

MappingOneApp ==
    AppEntry("100", "App One") @@ AddOnEntries("A1IAP", "101", "100", "App One")

MappingTwoApps ==
    AppEntry("100", "App One") @@ AppEntry("200", "App Bee")
    @@ AddOnEntries("A1IAP", "101", "100", "App One")
    @@ AddOnEntries("X1", "901", "200", "App Bee")

MappingAddOnsOnly ==
    AddOnEntries("X1", "901", "200", "App Bee")
    @@ AddOnEntries("A1", "902", "300", "App Three")

MappingChoices == {MappingOneApp, MappingTwoApps, MappingAddOnsOnly}

InitGroup ==
    /\ pc = "group_start"
    /\ products \in ProductLists
    /\ productMapping \in MappingChoices
    /\ prodIdx = 0 /\ appMap = << >> /\ apps = << >> /\ resolved = NoResolved
    /\ IdleParse /\ IdleAgg /\ IdleCal /\ IdleRecent /\ IdleClock /\ IdlePay /\ IdleRates /\ IdleRun

NextGroup == GroupBegin \/ GroupStep \/ GroupReturn

SpecGroup == InitGroup /\ [][NextGroup]_vars

-----------------------------------------------------------------------------
(* Inputs of the payment estimator specification *)

MaxPayLines == 3    \* lines of a report drawn for the estimator

DateStr(mm, dd, yyyy) == << mm, "/", dd, "/", yyyy >>

PayDateLineA ==
    DateStr("09", "01", "2025") \o << TAB >> \o DateStr("09", "30", "2025")
        \o << TAB, "x" >>
PayDateLineB ==
    DateStr("10", "01", "2025") \o << TAB >> \o DateStr("12", "31", "2025")
PayIndentedDateLine ==
    << SP >> \o DateStr("01", "01", "2024") \o << TAB >> \o DateStr("01", "31", "2024")
PayBadDateLine ==
    << "9", "/", "01", "/", "2025", TAB >> \o DateStr("09", "30", "2025")
PayHeaderLine == << "Start", SP, "Date", TAB, "End", SP, "Date" >>
PayTotalNaNLine == << "Total_Amount", TAB, "n/a" >>
PayIndentedTotalLine == << TAB, "Total_Amount", TAB, "5.00" >>

PayLineShapes ==
    {PayDateLineA, PayDateLineB, PayIndentedDateLine, PayBadDateLine,
     PayHeaderLine, FooterLine, PayTotalNaNLine, PayIndentedTotalLine, BlankLine}

PayReports == {Join(ls, NL) : ls \in SeqsUpTo(PayLineShapes, MaxPayLines)}

\* The clock at the midnight that starts Nov 2, 2025, later that day, and on
\* Feb 3, 2026.
PayClocks ==
    {[day |-> NewDate(2025, 10, 2), late |-> FALSE],
     [day |-> NewDate(2025, 10, 2), late |-> TRUE],
     [day |-> NewDate(2026, 1, 3), late |-> FALSE]}

\* The optional parameter: absent, or Aug 30, 2025.
PayGivenDates == {Null, Some(NewDate(2025, 7, 30))}

InitPayment ==
    /\ pc = "pay_start"
    /\ tsvContent \in PayReports
    /\ now \in PayClocks
    /\ fiscalPeriodEndDate \in PayGivenDates
    /\ payLines = << >> /\ payIdx = 0
    /\ paymentInfo = NoPaymentInfo /\ payResult = Null
    /\ lines = << >> /\ i = 0 /\ rows = << >>
    /\ products = NoProducts
    /\ IdleAgg /\ IdleRates /\ IdleGroup /\ IdleCal /\ IdleRecent /\ IdleRun

NextPayment == PayBegin \/ PayLine \/ PayReturn

SpecPayment == InitPayment /\ [][NextPayment]_vars

-----------------------------------------------------------------------------
(* Inputs of the calendar specifications *)

MaxCount == 4       \* months asked of getRecentCalendarMonths

CalYears == {1999, 2024, 2025, 2026}

InitCalendar ==
    /\ pc \in {"cal_start", "fiscal_start"}
    /\ calYear \in CalYears
    /\ calMonth \in 1..12
    /\ fiscalIn \in 1..12
    /\ calResult = NoCalendarMonth /\ fiscalOut = 0
    /\ IdleParse /\ products = NoProducts
    /\ IdleAgg /\ IdleRates /\ IdleGroup /\ IdleClock /\ IdlePay /\ IdleRecent /\ IdleRun

NextCalendar == CreateCalendarMonth \/ FiscalMonthToCalendarMonth

SpecCalendar == InitCalendar /\ [][NextCalendar]_vars

\* Days around the threshold, at the turn of the year and in a leap
\* February.
RecentDays ==
    {NewDate(2025, 0, 5), NewDate(2025, 0, 10), NewDate(2025, 1, 9),
     NewDate(2024, 1, 29), NewDate(2025, 9, 9), NewDate(2025, 9, 10),
     NewDate(2025, 11, 31), NewDate(2026, 2, 1)}

InitRecent ==
    /\ pc = "recent_start"
    /\ now \in {[day |-> dd, late |-> ll] : dd \in RecentDays, ll \in BOOLEAN}
    /\ count \in 0..MaxCount
    /\ year = 0 /\ month = 0 /\ loopIdx = 0 /\ months = << >>
    /\ IdleParse /\ products = NoProducts
    /\ IdleAgg /\ IdleRates /\ IdleGroup /\ IdlePay /\ IdleCal /\ IdleRun

NextRecent == RecentBegin \/ RecentPush \/ RecentReturn

SpecRecent == InitRecent /\ [][NextRecent]_vars

-----------------------------------------------------------------------------
(* Inputs of the specification of main *)

HeaderLine == MkLine(22, << >>)

ReportThreeRows ==
    Join(<< HeaderLine,
            DataLine("A1", "100", "One", TypeApp, "USD", "100.00"),
            DataLine("A1IAP", "101", "Gems", TypeAddOn, "USD", "50.00"),
            DataLine("B1", "200", "Bee", TypeApp, "EUR", "20.00"),
            FooterLine >>, NL)

ReportTwoCurrencies ==
    Join(<< HeaderLine,
            DataLine("A1", "100", "One", TypeApp, "EUR", "5.00"),
            DataLine("A1", "100", "One", TypeApp, "GBP", "7.00"),
            DataLine("", "300", "Coins", TypeAddOn, "", "20.00") >>, NL)

ReportHeaderOnly == Join(<< HeaderLine, FooterLine >>, NL)

ReportZeroRows ==
    Join(<< HeaderLine, DataLine("A1", "100", "One", TypeApp, "USD", "0.00") >>, NL)

MainReports == {ReportThreeRows, ReportTwoCurrencies, ReportHeaderOnly, ReportZeroRows}

\* The clock on the day after the report's period and half a year later.
MainClocks ==
    {[day |-> NewDate(2025, 9, 1), late |-> TRUE],
     [day |-> NewDate(2026, 3, 1), late |-> FALSE]}

MainRateOutcomes == {[kind |-> "http_error", rate |-> 0], [kind |-> "ok", rate |-> 11]}

Init ==
    /\ pc = "parse_start"
    /\ tsvContent \in MainReports
    /\ lines = << >> /\ i = 0 /\ rows = << >>
    /\ products = NoProducts
    /\ IdleAgg /\ IdleCal /\ IdleRecent /\ IdleRun
    /\ now \in MainClocks
    /\ IdlePay
    /\ currencies = {}
    /\ targetCurrency \in {USD, SGD}
    /\ rateSource \in [AllCurrencies -> MainRateOutcomes]
    /\ lookups = << >>
    /\ exchangeRates = NoRates
    /\ productMapping \in {NoMapping, MappingOneApp}
    /\ prodIdx = 0 /\ appMap = << >> /\ apps = << >> /\ resolved = NoResolved

Next ==
    \/ ParseBegin \/ ParseLine \/ ParseReturn
    \/ MainNoRows \/ MainAggregate
    \/ AggBegin \/ AggRow \/ AggReturn
    \/ MainNoProducts \/ MainFetchRates
    \/ RatesBegin
    \/ \E c \in AllCurrencies : LookupResponse(c)
    \/ \E c \in AllCurrencies : LookupBody(c)
    \/ RatesFanIn
    \/ MainConvert \/ ConvertProducts
    \/ MainPaymentInfo
    \/ PayBegin \/ PayLine \/ PayReturn
    \/ MainGroup \/ MainDisplayFlat
    \/ GroupBegin \/ GroupStep \/ GroupReturn
    \/ MainDisplayTree

Spec == Init /\ [][Next]_vars

-----------------------------------------------------------------------------
(* Claims about the report parser (SpecParse) *)

\* The rows of the lines of ls, in order: one row per non-blank line that
\* splits into at least 12 columns.
RECURSIVE RowsOfLines(_)
RowsOfLines(ls) ==
    IF ls = << >> THEN << >>
    ELSE LET columns == Split(Head(ls), TAB)
         IN (IF Trim(Head(ls)) # EmptyStr /\ Len(columns) >= 12
             THEN << parseRow(columns) >>
             ELSE << >>) \o RowsOfLines(Tail(ls))

RawLines == Split(tsvContent, NL)

\* The lines after the first non-blank line up to the last non-blank line,
\* the last one without its trailing whitespace.
LinesAfterHeader ==
    LET raw == RawLines
        nonBlank == {j \in 1..Len(raw) : Trim(raw[j]) # EmptyStr}
    IN IF nonBlank = {} THEN << >>
       ELSE LET first == CHOOSE j \in nonBlank : \A k \in nonBlank : j <= k
                last == CHOOSE j \in nonBlank : \A k \in nonBlank : k <= j
            IN IF first = last THEN << >>
               ELSE Append(SubSeq(raw, first + 1, last - 1), TrimEnd(raw[last]))

\* C1 as stated: the first line of the raw text is skipped and every other
\* non-blank raw line with at least 12 columns gives exactly one row, in
\* line order.
C1_AsStated ==
    pc = "parse_done" => rows = RowsOfLines(Tail(RawLines))

\* C1 amended: the text is trimmed first, so the lines up to and including
\* the first non-blank line are skipped, and each later non-blank line (the
\* last one taken without its trailing whitespace) gives exactly one row if
\* it splits on tab into at least 12 columns and none otherwise, in line order.
C1_ParseRowsOfTrimmedLines ==
    pc = "parse_done" => rows = RowsOfLines(LinesAfterHeader)

\* A report whose first raw line is blank, with a dropped line and a row.
C1_Witness ==
    /\ pc = "parse_done"
    /\ Len(rows) >= 1
    /\ Len(rows) < Len(lines) - 1
    /\ Trim(RawLines[1]) = EmptyStr

-----------------------------------------------------------------------------
(* Claims about the aggregator (SpecAgg) and the converter (SpecConvert) *)

KeyOfRow(r) ==
    IF r.vendorIdentifier # EmptyStr THEN r.vendorIdentifier ELSE r.appleIdentifier

KeyOfProduct(p) == IF p.sku # EmptyStr THEN p.sku ELSE p.appleIdentifier

ProductKeys == {KeyOfProduct(products[n]) : n \in 1..Len(products)}

NonZeroRowKeys ==
    {KeyOfRow(rows[k]) : k \in {j \in 1..Len(rows) : rows[j].extendedPartnerShare # 0}}

NoSharedKey ==
    \A a, b \in 1..Len(products) :
        a # b => KeyOfProduct(products[a]) # KeyOfProduct(products[b])

\* C2 as stated: the result has exactly one product per distinct key (SKU,
\* else app identifier) among the rows with nonzero extended proceeds.
C2_AsStated ==
    pc = "agg_done" => NoSharedKey /\ ProductKeys = NonZeroRowKeys

\* C2 amended: the result has exactly one product per distinct non-empty key
\* (SKU, else app identifier) among the rows with nonzero extended proceeds;
\* no two products share a key and a key seen only on zero-proceeds rows
\* does not appear.
C2_OneProductPerNonEmptyKey ==
    pc = "agg_done" => NoSharedKey /\ ProductKeys = NonZeroRowKeys \ {EmptyStr}

\* A zero-proceeds row came first for a key that is absent from a result of
\* at least two products.
C2_Witness ==
    /\ pc = "agg_done"
    /\ Len(products) >= 2
    /\ \E k \in 1..Len(rows) :
          /\ rows[k].extendedPartnerShare = 0
          /\ KeyOfRow(rows[k]) # EmptyStr
          /\ KeyOfRow(rows[k]) \notin ProductKeys

RowIdxs == 1..Len(rows)

ProductTotalFor(c) ==
    LET having == {n \in 1..Len(products) : c \in DOMAIN products[n].proceedsByCurrency}
    IN SumOver(having, [n \in having |-> products[n].proceedsByCurrency[c]])

RowTotalWhere(ks) == SumOver(ks, [k \in ks |-> rows[k].extendedPartnerShare])

CurrencyCodes ==
    {rows[k].partnerShareCurrency : k \in RowIdxs}
    \cup UNION {DOMAIN products[n].proceedsByCurrency : n \in 1..Len(products)}

AllRowsNonZero == \A k \in RowIdxs : rows[k].extendedPartnerShare # 0

\* C3 as stated: when every row has nonzero extended proceeds, for every
\* currency the products' totals for it sum to the extended proceeds of the
\* rows in that currency.
C3_AsStated ==
    (pc = "agg_done" /\ AllRowsNonZero) =>
        \A c \in CurrencyCodes :
            ProductTotalFor(c) = RowTotalWhere({k \in RowIdxs : rows[k].partnerShareCurrency = c})

\* C3 amended: when every row has nonzero extended proceeds and a non-empty
\* key, for every currency the products' totals for it sum to the extended
\* proceeds of the rows in that currency, a row with an empty currency code
\* counting as USD.
C3_SumsPreservedPerCurrency ==
    (pc = "agg_done" /\ AllRowsNonZero /\ \A k \in RowIdxs : KeyOfRow(rows[k]) # EmptyStr) =>
        \A c \in CurrencyCodes \cup {USD} :
            ProductTotalFor(c) =
                RowTotalWhere({k \in RowIdxs :
                    c = (IF rows[k].partnerShareCurrency = EmptyStr
                         THEN USD ELSE rows[k].partnerShareCurrency)})

\* Nonzero keyed rows, one of them without a currency code, merged into
\* fewer products than rows.
C3_Witness ==
    /\ pc = "agg_done"
    /\ AllRowsNonZero
    /\ \A k \in RowIdxs : KeyOfRow(rows[k]) # EmptyStr
    /\ \E k \in RowIdxs : rows[k].partnerShareCurrency = EmptyStr
    /\ Len(products) >= 2
    /\ Len(products) < Len(rows)

\* The first of the rows consumed so far that has nonzero proceeds and key.
EstablishingRow(key) ==
    LET ks == {k \in 1..rowIdx :
                  rows[k].extendedPartnerShare # 0 /\ KeyOfRow(rows[k]) = key}
    IN rows[CHOOSE k \in ks : \A j \in ks : k <= j]

BeginsWithIA(type) == Len(type) >= 2 /\ type[1] = "I" /\ type[2] = "A"

\* C4: after any number of rows, every product carries the title (the SKU
\* when that title is empty), the type code and the add-on flag of the first
\* row that established its key, whatever later rows with the key carry.
C4_IdentityFromFirstRow ==
    pc \in {"agg_loop", "agg_done"} =>
        \A n \in 1..Len(productMap) :
            LET r == EstablishingRow(productMap[n].key)
                p == productMap[n].value
            IN /\ p.title = (IF r.title # EmptyStr THEN r.title ELSE r.vendorIdentifier)
               /\ p.productType = r.productTypeIdentifier
               /\ p.isIAP = BeginsWithIA(r.productTypeIdentifier)

\* A later nonzero row with the same key and another title and type code
\* has been consumed.
C4_Witness ==
    /\ pc \in {"agg_loop", "agg_done"}
    /\ \E j, k \in 1..rowIdx :
          /\ j < k
          /\ rows[j].extendedPartnerShare # 0 /\ rows[k].extendedPartnerShare # 0
          /\ KeyOfRow(rows[j]) = KeyOfRow(rows[k]) /\ KeyOfRow(rows[j]) # EmptyStr
          /\ rows[j].title # rows[k].title
          /\ BeginsWithIA(rows[j].productTypeIdentifier)
                 # BeginsWithIA(rows[k].productTypeIdentifier)

PlainSum(p) ==
    SumOver(DOMAIN p.proceedsByCurrency, p.proceedsByCurrency)

\* C5: after conversion every product's total is the sum over its currency
\* map of amount x rate from the table; under a table of all 1.0 it is the
\* plain sum of the amounts; converting again gives the same products.
C5_ConvertedTotalIsRateWeightedSum ==
    pc = "convert_done" =>
        /\ \A n \in 1..Len(products) :
              LET p == products[n]
                  cs == DOMAIN p.proceedsByCurrency
              IN /\ p.totalProceeds =
                       SumOver(cs, [c \in cs |->
                           (p.proceedsByCurrency[c] * exchangeRates[c]) \div RateUnit])
                 /\ (\A c \in DOMAIN exchangeRates : exchangeRates[c] = RateUnit)
                       => p.totalProceeds = PlainSum(p)
        /\ convertProducts(products, exchangeRates) = products

\* A product with amounts in two currencies converted at a rate other than 1.0.
C5_Witness ==
    /\ pc = "convert_done"
    /\ \E n \in 1..Len(products) :
          /\ Cardinality(DOMAIN products[n].proceedsByCurrency) >= 2
          /\ products[n].totalProceeds # PlainSum(products[n])
          /\ products[n].totalProceeds # 0

-----------------------------------------------------------------------------
(* Claims about the rate lookups (SpecRates) *)

\* What the table must hold for a looked-up currency, from the answer to its
\* own lookup alone.
RateAnswered(c) ==
    IF rateSource[c].kind = "ok" /\ rateSource[c].rate # 0
    THEN rateSource[c].rate
    ELSE RateUnit

\* C6: fetchExchangeRates never raises, and the table it returns has an
\* entry for every requested currency and for the target, the target at 1.0,
\* every successful lookup at the rate answered and every failed one at 1.0.
C6_RateTableComplete ==
    /\ pc # "rates_raised"
    /\ pc = "rates_done" =>
          /\ DOMAIN exchangeRates = currencies \cup {targetCurrency}
          /\ exchangeRates[targetCurrency] = RateUnit
          /\ \A c \in currencies \ {targetCurrency} : exchangeRates[c] = RateAnswered(c)

\* The table returned after the EUR lookup failed and the GBP one succeeded.
C6_Witness ==
    /\ pc = "rates_done"
    /\ {EUR, GBP} \subseteq currencies
    /\ targetCurrency \notin currencies
    /\ rateSource[EUR].kind = "http_error"
    /\ rateSource[GBP].kind = "ok" /\ rateSource[GBP].rate = 11
    /\ exchangeRates[GBP] = 11

\* C7: whatever the order of completions and whichever lookups fail, a
\* lookup that has not settled can still proceed, a settled one holds the
\* answer to its own lookup (1.0 after a failure), and the table returned
\* holds exactly the settled answers.
C7_LookupsIndependent ==
    /\ \A c \in DOMAIN lookups :
          /\ lookups[c].state = "settled" => lookups[c].rate = RateAnswered(c)
          /\ lookups[c].state # "settled" => ENABLED (LookupResponse(c) \/ LookupBody(c))
    /\ pc = "rates_done" =>
          \A c \in DOMAIN lookups :
              lookups[c].state = "settled" /\ exchangeRates[c] = lookups[c].rate

\* One lookup has failed while another one, which will succeed, is still in
\* flight behind it.
C7_Witness ==
    /\ pc = "rates_wait"
    /\ \E c, d \in DOMAIN lookups :
          /\ c # d
          /\ rateSource[c].kind = "network_error" /\ lookups[c].state = "settled"
          /\ rateSource[d].kind = "ok" /\ rateSource[d].rate # 0
          /\ lookups[d].state = "fetching"

-----------------------------------------------------------------------------
(* Claims about main (Spec) *)

ProductCurrencies ==
    UNION {DOMAIN products[n].proceedsByCurrency : n \in 1..Len(products)}

AfterRates ==
    {"convert_start", "convert_done", "pay_start", "pay_loop", "pay_done",
     "group_start", "group_loop", "group_done", "done_flat", "done_tree"}

\* C8: conversion starts only when every lookup issued has settled and the
\* table has an entry for every currency of every product; while a lookup is
\* unsettled no product has a converted total.
C8_RatesCompleteBeforeConversion ==
    /\ pc \in AfterRates =>
          /\ \A c \in DOMAIN lookups : lookups[c].state = "settled"
          /\ ProductCurrencies \subseteq DOMAIN exchangeRates
    /\ (\E c \in DOMAIN lookups : lookups[c].state # "settled") =>
          \A n \in 1..Len(products) : products[n].totalProceeds = 0

\* Conversion is about to start after two lookups, one of which failed.
C8_Witness ==
    /\ pc = "convert_start"
    /\ \E c, d \in DOMAIN lookups :
          /\ rateSource[c].kind = "http_error"
          /\ rateSource[d].kind = "ok"
          /\ {c, d} \subseteq ProductCurrencies

-----------------------------------------------------------------------------
(* Claims about the grouping (SpecGroup) *)

Placing == pc \in {"group_loop", "group_done"} /\ prodIdx >= 1

LastPlaced == products[prodIdx]

OwnId(p) == IF p.appleIdentifier # EmptyStr THEN p.appleIdentifier ELSE p.sku

InAddOns(p, key) ==
    \E n \in 1..Len(appMap) :
        /\ appMap[n].key = key
        /\ \E k \in 1..Len(appMap[n].value.iaps) : appMap[n].value.iaps[k] = p

InAnyAddOns(p) ==
    \E n \in 1..Len(appMap) :
        \E k \in 1..Len(appMap[n].value.iaps) : appMap[n].value.iaps[k] = p

\* C9: each product is resolved by the mapping entry of its SKU when there
\* is one, else by the entry of its app identifier, else to itself (own id,
\* own title, own add-on flag), and is placed under that parent: in the
\* add-on list exactly when the resolved flag says add-on.
C9_ParentLookupOrder ==
    Placing =>
        LET p == LastPlaced
            m == productMapping
        IN /\ p.sku \in DOMAIN m =>
                  /\ resolved.parentAppId = m[p.sku].parentAppId
                  /\ resolved.parentAppName = m[p.sku].parentAppName
                  /\ resolved.isIAP = m[p.sku].isIAP
           /\ (p.sku \notin DOMAIN m /\ p.appleIdentifier \in DOMAIN m) =>
                  /\ resolved.parentAppId = m[p.appleIdentifier].parentAppId
                  /\ resolved.parentAppName = m[p.appleIdentifier].parentAppName
                  /\ resolved.isIAP = m[p.appleIdentifier].isIAP
           /\ (p.sku \notin DOMAIN m /\ p.appleIdentifier \notin DOMAIN m) =>
                  /\ resolved.parentAppId = OwnId(p)
                  /\ resolved.parentAppName = p.title
                  /\ resolved.isIAP = p.isIAP
           /\ \E n \in 1..Len(appMap) : appMap[n].key = resolved.parentAppId
           /\ IF resolved.isIAP THEN InAddOns(p, resolved.parentAppId)
              ELSE ~InAnyAddOns(p)

\* A product whose SKU and app identifier are both mapped, to different
\* parents, has been placed.
C9_Witness ==
    /\ Placing
    /\ LastPlaced.sku \in DOMAIN productMapping
    /\ LastPlaced.appleIdentifier \in DOMAIN productMapping
    /\ productMapping[LastPlaced.sku].parentAppId
           # productMapping[LastPlaced.appleIdentifier].parentAppId

AddOnTotal(app) ==
    SumOver(1..Len(app.iaps), [k \in 1..Len(app.iaps) |-> app.iaps[k].totalProceeds])

\* C10: after every placement and in the result, every parent entry's total
\* proceeds are its direct proceeds plus the converted totals of its add-ons.
C10_TotalIsDirectPlusAddOns ==
    /\ \A n \in 1..Len(appMap) :
          appMap[n].value.totalProceeds =
              appMap[n].value.appProceeds + AddOnTotal(appMap[n].value)
    /\ \A n \in 1..Len(apps) :
          apps[n].totalProceeds = apps[n].appProceeds + AddOnTotal(apps[n])

\* A returned parent entry with direct proceeds and two add-ons.
C10_Witness ==
    /\ pc = "group_done"
    /\ \E n \in 1..Len(apps) :
          /\ apps[n].appProceeds # 0
          /\ Len(apps[n].iaps) >= 2

Unmatched(p) == LookupInfo(productMapping, p) = << >>

\* No other product of the list is placed under the parent id of products[n].
SoleUnder(n) ==
    \A k \in 1..Len(products) :
        k # n => ResolveParent(productMapping, products[k]).parentAppId
                     # ResolveParent(productMapping, products[n]).parentAppId

\* The returned entry that is the product itself, with direct proceeds
\* `direct` and add-on list `addOns`.
SelfEntry(p, direct, addOns) ==
    \E n \in 1..Len(apps) :
        /\ apps[n].appleIdentifier = OwnId(p)
        /\ apps[n].title = p.title
        /\ apps[n].appProceeds = direct
        /\ apps[n].iaps = addOns

\* C11 as stated: every product matching no mapping entry, by SKU or by app
\* identifier, is returned as a parent entry with its own id and title,
\* direct proceeds equal to its converted total and an empty add-on list.
C11_AsStated ==
    pc = "group_done" =>
        \A n \in 1..Len(products) :
            Unmatched(products[n]) =>
                SelfEntry(products[n], products[n].totalProceeds, << >>)

\* C11 amended: an unmatched product that alone resolves to its id is
\* returned as an entry with its own id and title; when it is not an add-on
\* by its own type code the direct proceeds are its converted total and the
\* add-on list is empty, and when it is an add-on the direct proceeds are 0
\* and the add-on list holds the product itself.
C11_UnmatchedBecomesOwnParent ==
    pc = "group_done" =>
        \A n \in 1..Len(products) :
            (Unmatched(products[n]) /\ SoleUnder(n)) =>
                IF products[n].isIAP
                THEN SelfEntry(products[n], 0, << products[n] >>)
                ELSE SelfEntry(products[n], products[n].totalProceeds, << >>)

\* The result for a list with an unmatched app and an unmatched add-on, each
\* alone under its id, next to a matched product.
C11_Witness ==
    /\ pc = "group_done"
    /\ \E a, b, c \in 1..Len(products) :
          /\ Unmatched(products[a]) /\ SoleUnder(a) /\ ~products[a].isIAP
          /\ products[a].appleIdentifier = EmptyStr
          /\ Unmatched(products[b]) /\ SoleUnder(b) /\ products[b].isIAP
          /\ ~Unmatched(products[c])

-----------------------------------------------------------------------------
(* The end-to-end scenario (Spec) *)

\* The scenario's inputs: the three rows, the add-on mapped to the app of
\* A1, EUR answered at 1.1 and the target USD.
Scenario ==
    /\ tsvContent = ReportThreeRows
    /\ productMapping = MappingOneApp
    /\ targetCurrency = USD
    /\ rateSource[EUR] = [kind |-> "ok", rate |-> 11]

\* The entry the product with this SKU was placed under.
EntryOfSku(sku) ==
    LET p == CHOOSE q \in {products[n] : n \in 1..Len(products)} : q.sku = Word(sku)
        id == ResolveParent(productMapping, p).parentAppId
    IN CHOOSE e \in {apps[n] : n \in 1..Len(apps)} : e.appleIdentifier = id

\* C12: in the scenario the pipeline yields two parents: that of A1 with
\* total 150.00, direct 100.00 and the add-on A1IAP at 50.00, and B1 itself
\* with total 22.00; the grand total is 172.00.
C12_EndToEndScenario ==
    (Scenario /\ pc \in {"group_done", "done_tree"}) =>
        /\ Len(apps) = 2
        /\ EntryOfSku("A1").totalProceeds = 150000
        /\ EntryOfSku("A1").appProceeds = 100000
        /\ Len(EntryOfSku("A1").iaps) = 1
        /\ EntryOfSku("A1").iaps[1].sku = Word("A1IAP")
        /\ EntryOfSku("A1").iaps[1].totalProceeds = 50000
        /\ EntryOfSku("A1IAP") = EntryOfSku("A1")
        /\ EntryOfSku("B1").appleIdentifier = Word("200")
        /\ EntryOfSku("B1").title = Word("Bee")
        /\ EntryOfSku("B1").totalProceeds = 22000
        /\ EntryOfSku("B1").appProceeds = 22000
        /\ EntryOfSku("B1").iaps = << >>
        /\ GrandTotal(apps) = 172000

\* The scenario displayed as a tree.
C12_Witness ==
    /\ Scenario
    /\ pc = "done_tree"
    /\ Len(rows) = 3
    /\ Len(products) = 3
    /\ exchangeRates[EUR] = 11
    /\ GrandTotal(apps) = 172000

-----------------------------------------------------------------------------
(* Claims about the payment estimator (SpecPayment) *)


\* The lines of the raw text, and their first two columns.
RawPayLines == Split(tsvContent, NL)

\* The first two tab-separated columns of the line both match the pattern.
DateColumns(line) ==
    LET columns == Split(line, TAB)
    IN Len(columns) >= 2 /\ DatePattern(columns[1]) /\ DatePattern(columns[2])

\* The pair <<start, end>> of the first of these lines with date columns,
\* <<"", "">> when there is none.
FirstDatePair(ls) ==
    LET hits == {k \in 1..Len(ls) : DateColumns(ls[k])}
    IN IF hits = {} THEN << EmptyStr, EmptyStr >>
       ELSE LET columns == Split(ls[SetMin(hits)], TAB)
            IN << columns[1], columns[2] >>

CapturedPair == << paymentInfo.fiscalPeriodStart, paymentInfo.fiscalPeriodEnd >>

\* C13 as stated: once the scan is over, the captured period is the first
\* two columns of the first line of the raw text whose first two columns
\* both match MM/DD/YYYY.
C13_AsStated ==
    pc = "pay_done" => CapturedPair = FirstDatePair(RawPayLines)

\* C13 amended: once the scan is over, the captured period is the first two
\* columns of the first line whose first two columns both match MM/DD/YYYY
\* after the line has been trimmed of leading and trailing whitespace,
\* wherever the Total_Amount line stands; and a captured pair is never
\* changed by a later step.
C13_FirstTrimmedDateLineCaptured ==
    /\ [](pc = "pay_done" =>
            CapturedPair = FirstDatePair([k \in 1..Len(RawPayLines) |->
                                             Trim(RawPayLines[k])]))
    /\ [][paymentInfo.fiscalPeriodStart # EmptyStr =>
            /\ paymentInfo'.fiscalPeriodStart = paymentInfo.fiscalPeriodStart
            /\ paymentInfo'.fiscalPeriodEnd = paymentInfo.fiscalPeriodEnd]_vars

\* The scan is over for a report with the Total_Amount line first, then a
\* line with date columns, then another one with other dates.
C13_Witness ==
    /\ pc = "pay_done"
    /\ tsvContent = Join(<< FooterLine, PayDateLineA, PayDateLineB >>, NL)
    /\ CapturedPair = << DateStr("09", "01", "2025"), DateStr("09", "30", "2025") >>
    /\ paymentInfo.totalOwed = Some(208660)

\* The report of the example: it has the line Total_Amount 208.66 and the
\* row dated 09/01/2025 to 09/30/2025, no other total and no other dated
\* row, and no period end date is passed in.
PayExample ==
    /\ \E k \in 1..Len(RawPayLines) : RawPayLines[k] = FooterLine
    /\ \E k \in 1..Len(RawPayLines) : RawPayLines[k] = PayDateLineA
    /\ \A k \in 1..Len(RawPayLines) :
          RawPayLines[k] \notin {PayDateLineB, PayIndentedDateLine, PayIndentedTotalLine}
    /\ fiscalPeriodEndDate = Null

DisplayOct4 == << "Oct", SP, "4", ",", SP, "2", "0", "2", "5" >>
DisplayNov2 == << "Nov", SP, "2", ",", SP, "2", "0", "2", "5" >>

\* C14 as stated: for the example report the result has total-owed 208.66
\* and estimated payment date "Oct 4, 2025".
C14_AsStated ==
    (pc = "pay_done" /\ PayExample) =>
        /\ payResult # Null
        /\ payResult[1].totalOwed = Some(208660)
        /\ payResult[1].estimatedPaymentDate = Some(DisplayOct4)

\* C14 amended: for the example report the result has total-owed 208.66 and
\* estimated payment date "Nov 2, 2025", the day 33 days after Sep 30, 2025.
C14_ExampleEstimate ==
    (pc = "pay_done" /\ PayExample) =>
        /\ payResult # Null
        /\ payResult[1].totalOwed = Some(208660)
        /\ payResult[1].fiscalPeriodEnd = DateStr("09", "30", "2025")
        /\ payResult[1].estimatedPaymentDate = Some(DisplayNov2)
        /\ DaysFromCivil(2025, 11, 2) = DaysFromCivil(2025, 9, 30) + 33

\* The example report, the header first, has been estimated.
C14_Witness ==
    /\ pc = "pay_done"
    /\ PayExample
    /\ RawPayLines = << PayHeaderLine, PayDateLineA, FooterLine >>
    /\ payResult # Null

\* The day of a date string MM/DD/YYYY that matches the pattern.
DayOfDateStr(s) ==
    DaysFromCivil(DigitsValue[s[5]], DigitsValue[s[1]], DigitsValue[s[3]])

\* The estimated payment day of a result: 33 days after the period end date
\* passed in or, without one, after the captured one; none without both.
ExpectedEstimate(r) ==
    IF fiscalPeriodEndDate # Null THEN Some(fiscalPeriodEndDate[1] + 33)
    ELSE IF r.fiscalPeriodEnd # EmptyStr THEN Some(DayOfDateStr(r.fiscalPeriodEnd) + 33)
    ELSE Null

\* The clock is strictly after the midnight that starts the day.
StrictlyAfter(day) == now.day > day \/ (now.day = day /\ now.late)

\* C15: in every result, pending is false exactly when there is an
\* estimated payment date and the current time is strictly after it (the
\* date being the midnight that starts that day); a result that is not
\* pending has the estimated payment date as its payment date, and a pending
\* one has neither a payment date nor a payment amount.
C15_PendingIffNotAfterEstimate ==
    (pc = "pay_done" /\ payResult # Null) =>
        LET r == payResult[1]
            est == ExpectedEstimate(r)
        IN /\ (r.isPending = FALSE) <=> (est # Null /\ StrictlyAfter(est[1]))
           /\ est # Null <=> r.estimatedPaymentDate # Null
           /\ ~r.isPending =>
                  /\ r.paymentDate # Null
                  /\ r.paymentDate = r.estimatedPaymentDate
           /\ r.isPending => (r.paymentDate = Null /\ r.paymentAmount = Null)

\* A result returned later on the estimated payment day itself, not pending,
\* for a report without a total.
C15_Witness ==
    /\ pc = "pay_done"
    /\ payResult # Null
    /\ fiscalPeriodEndDate = Null
    /\ payResult[1].fiscalPeriodEnd = DateStr("09", "30", "2025")
    /\ now = [day |-> DaysFromCivil(2025, 11, 2), late |-> TRUE]
    /\ ~payResult[1].isPending
    /\ payResult[1].paymentAmount = Null

\* The amounts parsed from the second column of those of the lines whose
\* first column is Total_Amount.
SentinelAmounts(ls) ==
    {ParseFloatOrZero(Split(ls[k], TAB)[2]) :
        k \in {n \in 1..Len(ls) :
                 LET columns == Split(ls[n], TAB)
                 IN /\ Len(columns) >= 2
                    /\ columns[1] = Sentinel
                    /\ IsNumeric(columns[2])}}

\* C16 as stated: in every result total-owed is null or the number parsed
\* from the second column of a line of the report whose first column is
\* Total_Amount, and payment amount is null or equal to total-owed.
C16_AsStated ==
    (pc = "pay_done" /\ payResult # Null) =>
        LET r == payResult[1]
        IN /\ r.totalOwed = Null \/ r.totalOwed[1] \in SentinelAmounts(RawPayLines)
           /\ r.paymentAmount = Null \/ r.paymentAmount = r.totalOwed

\* C16 amended: in every result total-owed is null or the number parsed
\* from the second column of a line whose first column is Total_Amount once
\* the line is trimmed of leading and trailing whitespace, and payment
\* amount is null or equal to total-owed.
C16_AmountNeverFabricated ==
    (pc = "pay_done" /\ payResult # Null) =>
        LET r == payResult[1]
            trimmed == [k \in 1..Len(RawPayLines) |-> Trim(RawPayLines[k])]
        IN /\ r.totalOwed = Null \/ r.totalOwed[1] \in SentinelAmounts(trimmed)
           /\ r.paymentAmount = Null \/ r.paymentAmount = r.totalOwed

\* A paid result whose amount is the total of the report, which also has a
\* Total_Amount line without a number.
C16_Witness ==
    /\ pc = "pay_done"
    /\ payResult # Null
    /\ payResult[1].paymentAmount = Some(208660)
    /\ \E k \in 1..Len(RawPayLines) : RawPayLines[k] = PayTotalNaNLine
    /\ RawPayLines[Len(RawPayLines)] = PayTotalNaNLine

\* One of the lines carries a signal: a Total_Amount line with a number, or
\* date columns.
HasSignal(ls) ==
    \/ SentinelAmounts(ls) # {}
    \/ \E k \in 1..Len(ls) : DateColumns(ls[k])

\* C17 as stated: the result is null exactly when no line of the report is
\* a Total_Amount line with a parseable number and no line has its first
\* two columns matching MM/DD/YYYY.
C17_AsStated ==
    pc = "pay_done" => (payResult = Null <=> ~HasSignal(RawPayLines))

\* C17 amended: the result is null exactly when no line of the report,
\* trimmed of leading and trailing whitespace, is a Total_Amount line with a
\* parseable number or has its first two columns matching MM/DD/YYYY; a
\* report with either signal on an untrimmed line always has a result.
C17_NullIffNoSignal ==
    pc = "pay_done" =>
        /\ payResult = Null <=>
              ~HasSignal([k \in 1..Len(RawPayLines) |-> Trim(RawPayLines[k])])
        /\ HasSignal(RawPayLines) => payResult # Null

\* Null returned for a report of three lines, one a Total_Amount line
\* without a number and one with a malformed date.
C17_Witness ==
    /\ pc = "pay_done"
    /\ payResult = Null
    /\ Len(RawPayLines) = 3
    /\ \E k \in 1..3 : RawPayLines[k] = PayTotalNaNLine
    /\ \E k \in 1..3 : RawPayLines[k] = PayBadDateLine

-----------------------------------------------------------------------------
(* Claims about calendar and fiscal months (SpecCalendar, SpecRecent) *)

\* The four digits of a year and the two digits of a month, most
\* significant first.
FourDigitsOf(n) ==
    << Digit(n \div 1000), Digit((n \div 100) % 10), Digit((n \div 10) % 10), Digit(n % 10) >>

TwoDigitsOf(n) == << Digit(n \div 10), Digit(n % 10) >>

\* The period identifier the rule gives for a calendar year and month.
PeriodIdentifier(calendarYear, calendarMonth) ==
    LET fm == IF calendarMonth >= 10 THEN calendarMonth - 9 ELSE calendarMonth + 3
        fy == IF calendarMonth >= 10 THEN calendarYear + 1 ELSE calendarYear
    IN FourDigitsOf(fy) \o << "-" >> \o TwoDigitsOf(fm)

\* C18: createCalendarMonth(y, m), m in 1..12, returns the period identifier
\* fiscalYear-fiscalMonth, the month on two digits, with fiscalMonth m - 9
\* and fiscalYear y + 1 when m >= 10, else m + 3 and y.
C18_PeriodIdentifier ==
    pc = "cal_done" =>
        /\ calResult.reportDate = PeriodIdentifier(calYear, calMonth)
        /\ Len(calResult.reportDate) = 7
        /\ calResult.year = calYear /\ calResult.month = calMonth

\* December 1999 has been converted: fiscal year 2000, fiscal month 03.
C18_Witness ==
    /\ pc = "cal_done"
    /\ calYear = 1999 /\ calMonth = 12
    /\ calResult.reportDate = << "2", "0", "0", "0", "-", "0", "3" >>

\* The period identifier of the call is that of no other year and month.
IdentifierUnique ==
    \A y2 \in CalYears : \A m2 \in 1..12 :
        << y2, m2 >> # << calYear, calMonth >> =>
            createCalendarMonth(y2, m2).reportDate # calResult.reportDate

\* C19 as stated: a calendar month 1..12 converted to its fiscal month and
\* back, and a fiscal month 1..12 converted to its calendar month and back,
\* is the original month; no two calendar months share a period identifier.
C19_AsStated ==
    /\ pc = "cal_done" =>
          /\ fiscalMonthToCalendarMonth(calendarToFiscalMonth(calMonth)) = calMonth
          /\ IdentifierUnique
    /\ pc = "fiscal_done" => calendarToFiscalMonth(fiscalOut) = fiscalIn

\* C19 amended: fiscalMonthToCalendarMonth returns the calendar month as a
\* 0-based index, so a calendar month m in 1..12 converted to its fiscal
\* month and back gives m - 1, and a fiscal month converted to its calendar
\* index c and back from c + 1 gives the original fiscal month; both
\* conversions stay within the 12 months, and no two calendar months share a
\* period identifier.
C19_RoundTripUpToIndexBase ==
    /\ pc = "cal_done" =>
          /\ calendarToFiscalMonth(calMonth) \in 1..12
          /\ fiscalMonthToCalendarMonth(calendarToFiscalMonth(calMonth)) = calMonth - 1
          /\ IdentifierUnique
    /\ pc = "fiscal_done" =>
          /\ fiscalOut \in 0..11
          /\ calendarToFiscalMonth(fiscalOut + 1) = fiscalIn

\* Fiscal month 1 has been converted to the index of October.
C19_Witness ==
    /\ pc = "fiscal_done"
    /\ fiscalIn = 1
    /\ fiscalOut = 9
    /\ MONTH_NAMES[fiscalOut + 1] = "October"

\* Calendar months counted from year 0: year * 12 + (month - 1).
MonthNumber(cm) == cm.year * 12 + (cm.month - 1)

\* The number of today's calendar month, and today's day of the month.
ThisMonth == GetFullYear(now.day) * 12 + GetMonth(now.day)
DayOfMonth == GetDate(now.day)

\* months is made of `count` well-formed calendar months, each the month
\* before the one listed before it.
RecentListShape ==
    /\ Len(months) = count
    /\ \A k \in 1..Len(months) :
          /\ months[k].month \in 1..12
          /\ months[k] = createCalendarMonth(months[k].year, months[k].month)
    /\ \A k \in 1..(Len(months) - 1) :
          MonthNumber(months[k + 1]) = MonthNumber(months[k]) - 1

\* C20 as stated: the list returned has exactly `count` months, most recent
\* first, each the calendar month before the previous entry; the first is
\* the month before today's when today's day of the month is at least 10
\* and the month before that when it is below 10, so today's calendar month
\* is never listed.
C20_AsStated ==
    pc = "recent_done" =>
        /\ RecentListShape
        /\ count >= 1 =>
              MonthNumber(months[1]) =
                  (IF DayOfMonth >= 10 THEN ThisMonth - 1 ELSE ThisMonth - 2)
        /\ \A k \in 1..Len(months) : MonthNumber(months[k]) # ThisMonth

\* What the code returns: the shape of the claim, the list starting at
\* today's month when the day of the month is at least 10 and at the month
\* before it otherwise.
C20_AsCoded ==
    pc = "recent_done" =>
        /\ RecentListShape
        /\ count >= 1 =>
              MonthNumber(months[1]) =
                  (IF DayOfMonth >= 10 THEN ThisMonth ELSE ThisMonth - 1)

\* Three months returned on Jan 10, 2025, across the turn of the year.
C20_Witness ==
    /\ pc = "recent_done"
    /\ now.day = DaysFromCivil(2025, 1, 10)
    /\ count = 3
    /\ months[1].reportDate = << "2", "0", "2", "5", "-", "0", "4" >>
    /\ months[2].reportDate = << "2", "0", "2", "5", "-", "0", "3" >>

-----------------------------------------------------------------------------
(* main, from the start of a run to the text of the report *)

\* The flags read from process.argv.
useCache == "--no-cache" \notin argv
refreshMapping == "--refresh-mapping" \in argv
runSetup == "--setup" \in argv
showStatus == "--status" \in argv

\* The keys of LoadedConfig.  `configured` is the set of keys that the
\* priority chain of loadConfig (environment, .env, config file) gives a
\* value.
FinanceKeys == {"issuerId", "keyId", "privateKeyPath", "vendorNumber"}
AppManagerKeys ==
    {"appManagerIssuerId", "appManagerKeyId", "appManagerPrivateKeyPath"}

\* loadConfig: source is "none" unless some source holds an issuer id or a
\* key id ("env", "dotenv" and "config" are not told apart).
ConfigSource(cfg) ==
    IF "issuerId" \in cfg \/ "keyId" \in cfg THEN "config" ELSE "none"

hasConfiguration(cfg) == ConfigSource(cfg) # "none"

\* validateFinanceConfig: Null stands for the Error it throws.
validateFinanceConfig(cfg) ==
    IF FinanceKeys \ cfg # {} THEN Null ELSE Some(FinanceKeys)

\* validateAppManagerConfig: null unless all three keys are present.
validateAppManagerConfig(cfg) ==
    IF AppManagerKeys \subseteq cfg THEN Some(AppManagerKeys) ELSE Null

\* runSetupWizard: cancelled, or a config file with the four finance keys,
\* with or without the three App Manager keys, is written.
WizardOutcomes(cfg) ==
    {cfg, cfg \cup FinanceKeys, cfg \cup FinanceKeys \cup AppManagerKeys}

Terminated ==
    {"exit_status", "exit_setup", "exit_first_run", "exit_config_error",
     "exit_no_report", "exit_uncaught", "exit_no_rows", "exit_no_products",
     "done_flat", "done_tree"}

\* The exit status of the process: 0 when main returns or calls
\* process.exit(0), 1 on process.exit(1) (also from main().catch).
ExitStatus ==
    IF pc \in {"exit_config_error", "exit_no_report", "exit_uncaught"} THEN Some(1)
    ELSE IF pc \in Terminated THEN Some(0)
    ELSE Null

\* if (showStatus) { showConfigStatus(); return; }
MainStatus ==
    /\ pc = "main_start"
    /\ showStatus
    /\ pc' = "exit_status"
    /\ UNCHANGED <<runVars, parseVars, aggVars, products, rateVars, groupVars,
                   clockVars, payVars, calVars, recentVars>>

\* if (runSetup) { await runSetupWizard(); return; }
MainSetup ==
    /\ pc = "main_start"
    /\ ~showStatus /\ runSetup
    /\ configured' \in WizardOutcomes(configured)
    /\ pc' = "exit_setup"
    /\ UNCHANGED <<argv, mappingCacheFile, buildVars, selectedMonth, reportCache,
                   response, fetched, thrown, io, runs, parseVars, aggVars, products,
                   rateVars, groupVars, clockVars, payVars, calVars, recentVars>>

\* if (!hasConfiguration()) { select ...; return; }
MainFirstRun ==
    /\ pc = "main_start"
    /\ ~showStatus /\ ~runSetup
    /\ ~hasConfiguration(configured)
    /\ \E shouldSetup \in {"setup", "help", "exit"} :
          configured' \in (IF shouldSetup = "setup"
                           THEN WizardOutcomes(configured)
                           ELSE {configured})
    /\ pc' = "exit_first_run"
    /\ UNCHANGED <<argv, mappingCacheFile, buildVars, selectedMonth, reportCache,
                   response, fetched, thrown, io, runs, parseVars, aggVars, products,
                   rateVars, groupVars, clockVars, payVars, calVars, recentVars>>

\* try { config = loadConfig(); } catch { console.error; process.exit(1); }
MainLoadConfigFails_Continue ==
    /\ pc = "main_start"
    /\ ~showStatus /\ ~runSetup
    /\ hasConfiguration(configured)
    /\ validateFinanceConfig(configured) = Null
    /\ pc' = "config_loaded"
    /\ UNCHANGED <<runVars, parseVars, aggVars, products, rateVars, groupVars,
                   clockVars, payVars, calVars, recentVars>>

MainLoadConfigFails ==
    /\ pc = "main_start"
    /\ ~showStatus /\ ~runSetup
    /\ hasConfiguration(configured)
    /\ validateFinanceConfig(configured) = Null
    /\ pc' = "exit_config_error"
    /\ UNCHANGED <<runVars, parseVars, aggVars, products, rateVars, groupVars,
                   clockVars, payVars, calVars, recentVars>>

\* config = loadConfig(); appManagerConfig = loadAppManagerConfig()
MainLoadConfig ==
    /\ pc = "main_start"
    /\ ~showStatus /\ ~runSetup
    /\ hasConfiguration(configured)
    /\ validateFinanceConfig(configured) # Null
    /\ pc' = "config_loaded"
    /\ UNCHANGED <<runVars, parseVars, aggVars, products, rateVars, groupVars,
                   clockVars, payVars, calVars, recentVars>>

appManagerConfig == validateAppManagerConfig(configured)

-----------------------------------------------------------------------------
(* The product mapping cache.  Date.now() is counted in hours. *)

DateNow(clock) == clock.day * 24 + (IF clock.late THEN 12 ELSE 0)

CACHE_EXPIRY_MS == 7 * 24

\* The content of product-mapping.json: text that JSON.parse rejects, or an
\* object whose timestamp and data may be missing.
Unparsable == [parses |-> FALSE, timestamp |-> Null, data |-> Null]

Cached(timestamp, data) == [parses |-> TRUE, timestamp |-> timestamp, data |-> data]

isMappingCacheValid_Inclusive(file, clock) ==
    IF file = Null THEN FALSE
    ELSE LET cached == file[1]
         IN IF ~cached.parses THEN FALSE
            ELSE IF cached.timestamp = Null THEN FALSE
            ELSE DateNow(clock) - cached.timestamp[1] <= CACHE_EXPIRY_MS

\* isMappingCacheValid: a missing timestamp makes the age NaN, and
\* NaN < CACHE_EXPIRY_MS is false.
isMappingCacheValid(file, clock) ==
    IF file = Null THEN FALSE
    ELSE LET cached == file[1]
         IN IF ~cached.parses THEN FALSE
            ELSE IF cached.timestamp = Null THEN FALSE
            ELSE DateNow(clock) - cached.timestamp[1] < CACHE_EXPIRY_MS

\* readMappingCache: Object.entries of a missing data throws, which the
\* catch turns into null.
readMappingCache(file) ==
    IF file = Null THEN Null
    ELSE LET cached == file[1]
         IN IF ~cached.parses THEN Null
            ELSE IF cached.data = Null THEN Null
            ELSE cached.data

writeMappingCache(mapping, clock) ==
    Some(Cached(Some(DateNow(clock)), Some(mapping)))

\* if (appManagerConfig) is false: productMapping stays null.
MainNoAppManager ==
    /\ pc = "config_loaded"
    /\ appManagerConfig = Null
    /\ pc' = "month_select"
    /\ UNCHANGED <<runVars, parseVars, aggVars, products, rateVars, groupVars,
                   clockVars, payVars, calVars, recentVars>>

\* if (!refreshMapping && isMappingCacheValid()) productMapping = readMappingCache()
MainUseCachedMapping ==
    /\ pc = "config_loaded"
    /\ appManagerConfig # Null
    /\ ~refreshMapping /\ isMappingCacheValid(mappingCacheFile, now)
    /\ productMapping' =
          (IF readMappingCache(mappingCacheFile) = Null THEN NoMapping
           ELSE readMappingCache(mappingCacheFile)[1])
    /\ io' = io \o << "isMappingCacheValid", "Using cached product mapping...",
                      "readMappingCache" >>
    /\ pc' = "month_select"
    /\ UNCHANGED <<argv, configured, mappingCacheFile, buildVars, selectedMonth,
                   reportCache, response, fetched, thrown, runs, parseVars, aggVars,
                   products, rateVars, prodIdx, appMap, apps, resolved,
                   clockVars, payVars, calVars, recentVars>>

\* else { try { productMapping = await buildProductMapping(appManagerConfig) ...
MainBuildMapping ==
    /\ pc = "config_loaded"
    /\ appManagerConfig # Null
    /\ ~(~refreshMapping /\ isMappingCacheValid(mappingCacheFile, now))
    /\ io' = io \o (IF refreshMapping THEN << >> ELSE << "isMappingCacheValid" >>)
                \o << "Building product mapping..." >>
    /\ pc' = "map_start"
    /\ UNCHANGED <<argv, configured, mappingCacheFile, buildVars, selectedMonth,
                   reportCache, response, fetched, thrown, runs, parseVars, aggVars,
                   products, rateVars, groupVars, clockVars, payVars, calVars,
                   recentVars>>

\* writeMappingCache(productMapping), after buildProductMapping returned.
MainMappingBuilt ==
    /\ pc = "map_done"
    /\ productMapping' = builtMapping
    /\ mappingCacheFile' = writeMappingCache(builtMapping, now)
    /\ io' = io \o << "writeMappingCache", "Product mapping cached." >>
    /\ pc' = "month_select"
    /\ UNCHANGED <<argv, configured, buildVars, selectedMonth, reportCache,
                   response, fetched, thrown, runs, parseVars, aggVars, products, rateVars,
                   prodIdx, appMap, apps, resolved, clockVars, payVars, calVars,
                   recentVars>>

\* catch (error) { console.warn; "Continuing without app grouping..." }
MainMappingFailed ==
    /\ pc = "map_threw"
    /\ io' = io \o << "Warning: Could not fetch app data",
                      "Continuing without app grouping..." >>
    /\ pc' = "month_select"
    /\ UNCHANGED <<argv, configured, mappingCacheFile, buildVars, selectedMonth,
                   reportCache, response, fetched, thrown, runs, parseVars, aggVars,
                   products, rateVars, groupVars, clockVars, payVars, calVars,
                   recentVars>>

-----------------------------------------------------------------------------
(* buildProductMapping.  apiSource.apps is the answer to the apps request   *)
(* and apiSource.iaps[a], apiSource.groups[a] and apiSource.subs[g] are the *)
(* answers to the requests of app a and of subscription group g: Null when  *)
(* fetchAllPages throws on some page, Some(list) otherwise.  The entries    *)
(* keep the fields that groupByParentApp reads; productId and productName   *)
(* are read nowhere.                                                        *)

\* Map.prototype.set
MapSet(m, key, info) == (key :> info) @@ m

\* fetchIAPsForApp, fetchSubscriptionGroupsForApp, fetchSubscriptionsForGroup:
\* catch { return []; }
CatchFetchFailure(answer) == IF answer = Null THEN << >> ELSE answer[1]

AppInfo(app) ==
    [parentAppId |-> app.id, parentAppName |-> app.name, isIAP |-> FALSE]

AddOnInfo(app) ==
    [parentAppId |-> app.id, parentAppName |-> app.name, isIAP |-> TRUE]

\* for (const [appId, appName] of apps) productMap.set(appId, ...)
RECURSIVE SetApps(_, _)
SetApps(m, appList) ==
    IF appList = << >> THEN m
    ELSE SetApps(MapSet(m, Head(appList).id, AppInfo(Head(appList))), Tail(appList))

\* for (const iap of iaps) / for (const sub of subscriptions): the entry is
\* set under the product id and under the App Store Connect id.
RECURSIVE SetAddOns(_, _, _)
SetAddOns(m, items, app) ==
    IF items = << >> THEN m
    ELSE SetAddOns(MapSet(MapSet(m, Head(items).productId, AddOnInfo(app)),
                          Head(items).id, AddOnInfo(app)),
                   Tail(items), app)

\* for (const group of subscriptionGroups) { fetchSubscriptionsForGroup ... }
RECURSIVE SetSubscriptions(_, _, _, _)
SetSubscriptions(m, groups, app, source) ==
    IF groups = << >> THEN m
    ELSE SetSubscriptions(
             SetAddOns(m, CatchFetchFailure(source.subs[Head(groups)]), app),
             Tail(groups), app, source)

\* One iteration of the loop over the apps.
BuildOneApp(m, app, source) ==
    LET iaps == CatchFetchFailure(source.iaps[app.id])
        subscriptionGroups == CatchFetchFailure(source.groups[app.id])
    IN SetSubscriptions(SetAddOns(m, iaps, app), subscriptionGroups, app, source)

\* const apps = await fetchAllApps(config), and the loop that adds the apps.
BuildFetchApps ==
    /\ pc = "map_start"
    /\ io' = Append(io, "GET apps")
    /\ IF apiSource.apps = Null
       THEN /\ pc' = "map_threw"
            /\ UNCHANGED <<fetchedApps, appIdx, builtMapping>>
       ELSE /\ fetchedApps' = apiSource.apps[1]
            /\ builtMapping' = SetApps(NoMapping, apiSource.apps[1])
            /\ appIdx' = 0
            /\ pc' = "map_loop"
    /\ UNCHANGED <<argv, configured, mappingCacheFile, apiSource, selectedMonth,
                   reportCache, response, fetched, thrown, runs, parseVars, aggVars,
                   products, rateVars, groupVars, clockVars, payVars, calVars,
                   recentVars>>

\* Some request of this iteration fails.
SubFetchFails(app, source) ==
    \/ source.iaps[app.id] = Null
    \/ source.groups[app.id] = Null
    \/ \E n \in 1..Len(CatchFetchFailure(source.groups[app.id])) :
          source.subs[CatchFetchFailure(source.groups[app.id])[n]] = Null

BuildApp_Rethrow ==
    /\ pc = "map_loop"
    /\ appIdx < Len(fetchedApps)
    /\ io' = Append(io, "GET inAppPurchasesV2, subscriptionGroups")
    /\ IF SubFetchFails(fetchedApps[appIdx + 1], apiSource)
       THEN /\ pc' = "map_threw"
            /\ UNCHANGED <<builtMapping, appIdx>>
       ELSE /\ builtMapping' = BuildOneApp(builtMapping, fetchedApps[appIdx + 1], apiSource)
            /\ appIdx' = appIdx + 1
            /\ pc' = pc
    /\ UNCHANGED <<argv, configured, mappingCacheFile, apiSource, fetchedApps,
                   selectedMonth, reportCache, response, fetched, thrown, runs, parseVars,
                   aggVars, products, rateVars, groupVars, clockVars, payVars,
                   calVars, recentVars>>

BuildApp ==
    /\ pc = "map_loop"
    /\ appIdx < Len(fetchedApps)
    /\ builtMapping' = BuildOneApp(builtMapping, fetchedApps[appIdx + 1], apiSource)
    /\ appIdx' = appIdx + 1
    /\ io' = Append(io, "GET inAppPurchasesV2, subscriptionGroups")
    /\ UNCHANGED <<pc, argv, configured, mappingCacheFile, apiSource, fetchedApps,
                   selectedMonth, reportCache, response, fetched, thrown, runs, parseVars,
                   aggVars, products, rateVars, groupVars, clockVars, payVars,
                   calVars, recentVars>>

BuildReturn ==
    /\ pc = "map_loop"
    /\ appIdx >= Len(fetchedApps)
    /\ pc' = "map_done"
    /\ UNCHANGED <<runVars, parseVars, aggVars, products, rateVars, groupVars,
                   clockVars, payVars, calVars, recentVars>>

-----------------------------------------------------------------------------
(* The report cache, downloadFinanceReport and fetchFinanceReport.  In an   *)
(* error message every digit is a token of its own and a word is one token. *)

\* `${month.year}-${month.month.toString().padStart(2, "0")}.tsv`
getCacheFilename(calendarMonth) ==
    NumberToString(calendarMonth.year) \o << "-" >>
    \o PadStart(NumberToString(calendarMonth.month), 2, "0") \o << ".tsv" >>

isCached(cache, calendarMonth) == getCacheFilename(calendarMonth) \in DOMAIN cache

readCache(cache, calendarMonth) ==
    IF ~isCached(cache, calendarMonth) THEN Null
    ELSE Some(cache[getCacheFilename(calendarMonth)])

writeCache(cache, calendarMonth, content) ==
    (getCacheFilename(calendarMonth) :> content) @@ cache

\* String.prototype.includes
Includes(s, pattern) ==
    \E k \in 0..(Len(s) - Len(pattern)) : SubSeq(s, k + 1, k + Len(pattern)) = pattern

\* String.prototype.toLowerCase, on the tokens that have capitals.
LowerToken(t) ==
    CASE t = "Not" -> "not"
      [] t = "NOT" -> "not"
      [] t = "Found" -> "found"
      [] t = "FOUND" -> "found"
      [] OTHER -> t

toLowerCase(s) == [k \in DOMAIN s |-> LowerToken(s[k])]

\* A gzipped body is the magic number followed by the text.
Gzip(text) == << "1f8b" >> \o text
gunzipSync(body) == Tail(body)

IsGzip(contentType) == contentType = "application/a-gzip"
IsJson(contentType) == contentType = "application/json"

\* errors.map(e => e.detail || e.title || "Unknown error").join(", ")
ErrorMessages(errors) ==
    Join([n \in 1..Len(errors) |->
             IF errors[n].detail # EmptyStr THEN errors[n].detail
             ELSE IF errors[n].title # EmptyStr THEN errors[n].title
             ELSE << "Unknown", SP, "error" >>],
         ", ")

ApiError(status, text) ==
    [name |-> "Error",
     message |-> << "API", SP, "Error", SP, "(" >> \o NumberToString(status)
                 \o << "):", SP >> \o text]

\* new NoReportAvailableError(month)
NoReportAvailableError(calendarMonth) ==
    [name |-> "NoReportAvailableError",
     message |-> << "No", SP, "financial", SP, "report", SP, "available", SP,
                    "for", SP >> \o calendarMonth.displayName]

Returned(text) == [error |-> Null, text |-> text]
Threw(error) == [error |-> Some(error), text |-> EmptyStr]

\* downloadFinanceReport, for the answer of the network: no response at
\* all (fetch rejects), or a response.
downloadFinanceReport(answer) ==
    IF answer.kind = "fetch_failed"
    THEN Threw([name |-> "TypeError", message |-> << "fetch", SP, "failed" >>])
    ELSE IF answer.status \notin 200..299
    THEN IF IsJson(answer.contentType)
         THEN Threw(ApiError(answer.status, ErrorMessages(answer.errors)))
         ELSE Threw(ApiError(answer.status, answer.statusText))
    ELSE IF IsGzip(answer.contentType)
    THEN Returned(gunzipSync(answer.body))
    ELSE Returned(answer.body)

\* error.message.includes("404") || error.message.toLowerCase().includes("not found")
LooksNotFound(message) ==
    \/ Includes(message, << "4", "0", "4" >>)
    \/ Includes(toLowerCase(message), << "not", SP, "found" >>)

\* The catch of fetchFinanceReport: the error it throws for a caught one.
Rethrown(error, calendarMonth) ==
    IF LooksNotFound(error.message) THEN NoReportAvailableError(calendarMonth)
    ELSE error

\* const selectedMonth = await select(...)
MainSelectMonth(calendarMonth) ==
    /\ pc = "month_select"
    /\ selectedMonth' = calendarMonth
    /\ pc' = "report_start"
    /\ UNCHANGED <<argv, configured, mappingCacheFile, buildVars, reportCache,
                   response, fetched, thrown, io, runs, parseVars, aggVars, products,
                   rateVars, groupVars, clockVars, payVars, calVars, recentVars>>

\* if (useCache && isCached(selectedMonth))
CacheHit_IgnoreFlag == isCached(reportCache, selectedMonth)

CacheHit == useCache /\ isCached(reportCache, selectedMonth)

\* The file reads that evaluating the condition makes.
CacheProbe == IF useCache THEN << "isCached" >> ELSE << >>

\* reportContent = readCache(selectedMonth)!
MainReadCache ==
    /\ pc = "report_start"
    /\ CacheHit
    /\ tsvContent' = readCache(reportCache, selectedMonth)[1]
    /\ io' = io \o CacheProbe \o << "Using cached report...", "readCache" >>
    /\ pc' = "parse_start"
    /\ UNCHANGED <<argv, configured, mappingCacheFile, buildVars, selectedMonth,
                   reportCache, response, fetched, thrown, runs, lines, i, rows, aggVars,
                   products, rateVars, groupVars, clockVars, payVars, calVars,
                   recentVars>>

\* else { try { reportContent = await fetchFinanceReport(config, selectedMonth)
MainFetchReport ==
    /\ pc = "report_start"
    /\ ~CacheHit
    /\ io' = io \o CacheProbe
    /\ pc' = "fetch_start"
    /\ UNCHANGED <<argv, configured, mappingCacheFile, buildVars, selectedMonth,
                   reportCache, response, fetched, thrown, runs, parseVars, aggVars,
                   products, rateVars, groupVars, clockVars, payVars, calVars,
                   recentVars>>

\* fetchFinanceReport: the download and the catch around it.
FetchFinanceReport(answer) ==
    /\ pc = "fetch_start"
    /\ io' = Append(io, "GET financeReports")
    /\ response' = Some(answer)
    /\ LET outcome == downloadFinanceReport(answer)
       IN IF outcome.error = Null
          THEN /\ fetched' = outcome.text
               /\ thrown' = Null
               /\ pc' = "fetch_done"
          ELSE /\ thrown' = Some(Rethrown(outcome.error[1], selectedMonth))
               /\ fetched' = fetched
               /\ pc' = "fetch_threw"
    /\ UNCHANGED <<argv, configured, mappingCacheFile, buildVars, selectedMonth,
                   reportCache, runs, parseVars, aggVars, products, rateVars,
                   groupVars, clockVars, payVars, calVars, recentVars>>

\* if (useCache) writeCache(selectedMonth, reportContent)
CacheAfterFetch_Always(cache, calendarMonth, content) ==
    writeCache(cache, calendarMonth, content)

CacheAfterFetch(cache, calendarMonth, content) ==
    IF useCache THEN writeCache(cache, calendarMonth, content) ELSE cache

MainReportFetched ==
    /\ pc = "fetch_done"
    /\ tsvContent' = fetched
    /\ reportCache' = CacheAfterFetch(reportCache, selectedMonth, fetched)
    /\ io' = io \o (IF useCache
                    THEN << "writeCache", "Report cached for future use." >>
                    ELSE << >>)
    /\ pc' = "parse_start"
    /\ UNCHANGED <<argv, configured, mappingCacheFile, buildVars, selectedMonth,
                   response, fetched, thrown, runs, lines, i, rows, aggVars, products,
                   rateVars, groupVars, clockVars, payVars, calVars, recentVars>>

\* catch (error) { if (error instanceof NoReportAvailableError) process.exit(1)
MainNoReportAvailable ==
    /\ pc = "fetch_threw"
    /\ thrown[1].name = "NoReportAvailableError"
    /\ pc' = "exit_no_report"
    /\ UNCHANGED <<runVars, parseVars, aggVars, products, rateVars, groupVars,
                   clockVars, payVars, calVars, recentVars>>

\* throw error, which main().catch ends with process.exit(1)
MainRethrow ==
    /\ pc = "fetch_threw"
    /\ thrown[1].name # "NoReportAvailableError"
    /\ pc' = "exit_uncaught"
    /\ UNCHANGED <<runVars, parseVars, aggVars, products, rateVars, groupVars,
                   clockVars, payVars, calVars, recentVars>>

\* Runs of the program after the first one.
MaxRuns == 1

\* The program is started again: the files (configuration, mapping cache,
\* report cache) are what the previous run left.
NextRun(flags) ==
    /\ pc \in Terminated
    /\ runs < MaxRuns
    /\ runs' = runs + 1
    /\ argv' = flags
    /\ pc' = "main_start"
    /\ tsvContent' = EmptyStr /\ lines' = << >> /\ i' = 0 /\ rows' = << >>
    /\ rowIdx' = 0 /\ productMap' = << >>
    /\ products' = NoProducts
    /\ currencies' = {} /\ lookups' = << >> /\ exchangeRates' = NoRates
    /\ productMapping' = NoMapping /\ prodIdx' = 0 /\ appMap' = << >>
    /\ apps' = << >> /\ resolved' = NoResolved
    /\ fiscalPeriodEndDate' = Null /\ payLines' = << >> /\ payIdx' = 0
    /\ paymentInfo' = NoPaymentInfo /\ payResult' = Null
    /\ fetchedApps' = << >> /\ appIdx' = 0 /\ builtMapping' = NoMapping
    /\ selectedMonth' = NoCalendarMonth
    /\ response' = Null /\ fetched' = EmptyStr /\ thrown' = Null /\ io' = << >>
    /\ UNCHANGED <<configured, mappingCacheFile, apiSource, reportCache,
                   targetCurrency, rateSource, clockVars, calVars, recentVars>>

-----------------------------------------------------------------------------
(* Inputs of the specification of whole runs *)

AllFlags == {"--no-cache", "--refresh-mapping", "--setup", "--status"}

\* The flags of a later run.
LaterFlags == SUBSET {"--no-cache", "--refresh-mapping"}

ConfigChoices ==
    { {},
      {"privateKeyPath", "vendorNumber"},
      {"issuerId"},
      FinanceKeys \ {"vendorNumber"},
      FinanceKeys \ {"privateKeyPath"},
      FinanceKeys,
      FinanceKeys \cup {"appManagerKeyId"},
      FinanceKeys \cup AppManagerKeys }

\* product-mapping.json: absent, not JSON, without timestamp, without data,
\* twelve hours old, twelve hours short of seven days old, seven days old.
MappingCacheChoices(clock) ==
    { Null,
      Some(Unparsable),
      Some(Cached(Null, Some(MappingOneApp))),
      Some(Cached(Some(DateNow(clock) - 12), Null)),
      Some(Cached(Some(DateNow(clock) - 12), Some(MappingOneApp))),
      Some(Cached(Some(DateNow(clock) - CACHE_EXPIRY_MS + 12), Some(MappingOneApp))),
      Some(Cached(Some(DateNow(clock) - CACHE_EXPIRY_MS), Some(MappingOneApp))) }

AppOne == [id |-> << "100" >>, name |-> << "App One" >>]
AppBee == [id |-> << "200" >>, name |-> << "App Bee" >>]
GroupOne == << "g1" >>
GroupBee == << "g2" >>

Item(id, productId) == [id |-> << id >>, productId |-> << productId >>]

\* The API when the requests named in `failing` fail.
Api(failing) ==
    LET answer(request, list) == IF request \in failing THEN Null ELSE Some(list)
    IN [apps |-> answer("apps", << AppOne, AppBee >>),
        iaps |-> (AppOne.id :> answer("iaps 100", << Item("101", "A1IAP") >>))
                 @@ (AppBee.id :> answer("iaps 200", << >>)),
        groups |-> (AppOne.id :> answer("groups 100", << GroupOne >>))
                   @@ (AppBee.id :> answer("groups 200", << GroupBee >>)),
        subs |-> (GroupOne :> answer("subs g1", << Item("111", "A1SUB") >>))
                 @@ (GroupBee :> answer("subs g2", << Item("211", "B1SUB") >>))]

\* An account without apps.
ApiNoApps ==
    [apps |-> Some(<< >>), iaps |-> << >>, groups |-> << >>, subs |-> << >>]

FailureChoices ==
    { {}, {"apps"}, {"iaps 100"}, {"groups 100"}, {"subs g1"},
      {"iaps 100", "groups 200"} }

ApiChoices == {Api(failing) : failing \in FailureChoices} \cup {ApiNoApps}

\* The configuration, the mapping cache file and the API of a run: without
\* the App Manager keys the file is absent or fresh; with them, every file
\* with an API that answers everything, and every API with an absent and
\* with a seven days old file.
Environment(cfg, file, source) ==
    [configured |-> cfg, mappingCacheFile |-> file, apiSource |-> source]

Environments(clock) ==
    {Environment(cfg, file, Api({})) :
        cfg \in ConfigChoices \ {FinanceKeys \cup AppManagerKeys},
        file \in {Null, Some(Cached(Some(DateNow(clock) - 12), Some(MappingOneApp)))}}
    \cup {Environment(FinanceKeys \cup AppManagerKeys, file, Api({})) :
              file \in MappingCacheChoices(clock)}
    \cup {Environment(FinanceKeys \cup AppManagerKeys, file, source) :
              file \in {Null, Some(Cached(Some(DateNow(clock) - CACHE_EXPIRY_MS),
                                           Some(MappingOneApp)))},
              source \in ApiChoices}

MonthChoices == {createCalendarMonth(2025, 8), createCalendarMonth(2025, 9)}

Answer(status, statusText, contentType, errors, body) ==
    [kind |-> "response", status |-> status, statusText |-> statusText,
     contentType |-> contentType, errors |-> errors, body |-> body]

OkGzip(text) == Answer(200, << "OK" >>, "application/a-gzip", << >>, Gzip(text))
OkPlain(text) == Answer(200, << "OK" >>, "text/plain", << >>, text)

JsonError(status, detail, title) ==
    Answer(status, EmptyStr, "application/json",
           << [detail |-> detail, title |-> title] >>, EmptyStr)

PlainError(status, statusText) ==
    Answer(status, statusText, "text/html", << >>, EmptyStr)

NoSales404 ==
    JsonError(404, << "There", SP, "were", SP, "no", SP, "sales", SP, "for",
                      SP, "the", SP, "date", SP, "specified." >>, << "NOT_FOUND" >>)
Plain404 == PlainError(404, << "Not", SP, "Found" >>)
Unauthorized401 == JsonError(401, EmptyStr, << "NOT_AUTHORIZED" >>)
Untitled403 == JsonError(403, EmptyStr, EmptyStr)
Plain500 == PlainError(500, << "Internal", SP, "Server", SP, "Error" >>)
\* A 400 whose detail quotes the vendor number 84045.
BadVendor400 ==
    JsonError(400, << "Invalid", SP, "vendor", SP, "number", SP,
                      "8", "4", "0", "4", "5" >>, << "PARAMETER_ERROR" >>)
\* A 500 whose detail speaks of something not found.
Upstream500 ==
    JsonError(500, << "Upstream", SP, "service", SP, "not", SP, "found" >>,
              << "UNEXPECTED_ERROR" >>)
FetchFailed ==
    [kind |-> "fetch_failed", status |-> 0, statusText |-> EmptyStr,
     contentType |-> "", errors |-> << >>, body |-> EmptyStr]

ReportAnswers ==
    { OkGzip(ReportThreeRows), OkPlain(ReportHeaderOnly), OkGzip(ReportZeroRows),
      NoSales404, Plain404, Unauthorized401, Untitled403, Plain500,
      BadVendor400, Upstream500, FetchFailed }

\* What the report cache holds before the first run.
ReportCacheChoices ==
    { << >>, writeCache(<< >>, createCalendarMonth(2025, 8), ReportTwoCurrencies) }

MainClock == [day |-> NewDate(2025, 9, 1), late |-> TRUE]

InitMain ==
    /\ pc = "main_start"
    /\ argv \in SUBSET AllFlags
    /\ now = MainClock
    /\ \E env \in Environments(MainClock) :
          /\ configured = env.configured
          /\ mappingCacheFile = env.mappingCacheFile
          /\ apiSource = env.apiSource
    /\ fetchedApps = << >> /\ appIdx = 0 /\ builtMapping = NoMapping
    /\ selectedMonth = NoCalendarMonth
    /\ reportCache \in ReportCacheChoices
    /\ response = Null /\ fetched = EmptyStr /\ thrown = Null /\ io = << >>
    /\ runs = 0
    /\ IdleParse /\ IdleAgg /\ products = NoProducts
    /\ currencies = {} /\ targetCurrency = USD
    /\ rateSource = [c \in AllCurrencies |-> [kind |-> "ok", rate |-> 11]]
    /\ lookups = << >> /\ exchangeRates = NoRates
    /\ IdleGroup /\ IdlePay /\ IdleCal /\ IdleRecent

NextMain ==
    \/ MainStatus \/ MainSetup \/ MainFirstRun
    \/ MainLoadConfigFails \/ MainLoadConfig
    \/ MainNoAppManager \/ MainUseCachedMapping \/ MainBuildMapping
    \/ BuildFetchApps \/ BuildApp \/ BuildReturn
    \/ MainMappingBuilt \/ MainMappingFailed
    \/ \E calendarMonth \in MonthChoices : MainSelectMonth(calendarMonth)
    \/ MainReadCache \/ MainFetchReport
    \/ \E answer \in ReportAnswers : FetchFinanceReport(answer)
    \/ MainReportFetched \/ MainNoReportAvailable \/ MainRethrow
    \/ Next
    \/ \E flags \in LaterFlags : NextRun(flags)

SpecMain == InitMain /\ [][NextMain]_vars

-----------------------------------------------------------------------------
(* Claims about whole runs (SpecMain) *)

\* The run has written e to the console or made the file access or request e.
InIo(e) == \E k \in 1..Len(io) : io[k] = e

\* The mapping block of main is behind the run.
PastMapping ==
    pc \notin {"main_start", "exit_status", "exit_setup", "exit_first_run",
               "exit_config_error", "config_loaded", "map_start", "map_loop",
               "map_done", "map_threw"}

\* No product mapping is available for the run: the App Manager keys are
\* not all configured, the build failed, or the cache file gave no mapping.
MappingUnavailable ==
    \/ appManagerConfig = Null
    \/ InIo("Continuing without app grouping...")
    \/ InIo("readMappingCache") /\ readMappingCache(mappingCacheFile) = Null

GroupingNeverInvoked ==
    /\ pc \notin {"group_start", "group_loop", "group_done", "done_tree"}
    /\ prodIdx = 0 /\ appMap = << >> /\ apps = << >>

\* C21: in a run without product mapping groupByParentApp is never invoked,
\* and from the payment estimate the run goes on to display the converted
\* products, sorted, as a flat list, which ends the run with exit status 0.
C21_FlatWithoutMapping ==
    /\ []((PastMapping /\ MappingUnavailable) =>
             (productMapping = NoMapping /\ GroupingNeverInvoked))
    /\ [][(pc = "pay_done" /\ MappingUnavailable) =>
             /\ pc' = "done_flat"
             /\ products' = SortDesc(products)
             /\ ExitStatus' = Some(0)]_vars

\* A run whose mapping build failed has displayed three products flat.
C21_Witness ==
    /\ pc = "done_flat"
    /\ InIo("Continuing without app grouping...")
    /\ Len(products) = 3

\* The report source answered that it has no report for the period: a
\* response with status 404.
NoReportAtSource ==
    response # Null /\ response[1].kind = "response" /\ response[1].status = 404

\* The error that downloadFinanceReport threw for the answer.
OriginalError == downloadFinanceReport(response[1]).error[1]

RaisedNotFound == thrown # Null /\ thrown[1].name = "NoReportAvailableError"

\* C22 as stated: fetchFinanceReport raises NoReportAvailableError exactly
\* when the report source has no report for the period, and re-raises the
\* original error for every other failure.
C22_AsStated ==
    thrown # Null =>
        /\ RaisedNotFound <=> NoReportAtSource
        /\ ~NoReportAtSource => thrown[1] = OriginalError

\* C22 as coded: a 404 answer is always raised as NoReportAvailableError;
\* any other failure is raised as NoReportAvailableError exactly when its
\* message contains "404" or, in lower case, "not found", and is re-raised
\* unchanged otherwise.
C22_AsCoded ==
    thrown # Null =>
        /\ NoReportAtSource => RaisedNotFound
        /\ RaisedNotFound <=> LooksNotFound(OriginalError.message)
        /\ ~RaisedNotFound => thrown[1] = OriginalError

\* A 400 answer that quotes a vendor number with the digits 404 has been
\* raised as NoReportAvailableError.
C22_Witness ==
    /\ pc = "fetch_threw"
    /\ response = Some(BadVendor400)
    /\ RaisedNotFound

\* The run is past the step that obtains the report text.
PastReportStep ==
    selectedMonth # NoCalendarMonth /\ pc \notin {"report_start", "fetch_start"}

\* C23: with caching enabled and an entry for the selected month, main takes
\* the cached text and the run issues no report download; with --no-cache
\* main never probes or reads the report cache and always issues the
\* download.
C23_CacheHitOrDownload ==
    /\ [][pc = "report_start" =>
             IF useCache /\ isCached(reportCache, selectedMonth)
             THEN /\ tsvContent' = reportCache[getCacheFilename(selectedMonth)]
                  /\ pc' = "parse_start"
             ELSE pc' = "fetch_start"]_vars
    /\ [](InIo("readCache") =>
             /\ useCache
             /\ ~InIo("GET financeReports")
             /\ tsvContent = reportCache[getCacheFilename(selectedMonth)])
    /\ [](~useCache =>
             /\ ~InIo("isCached") /\ ~InIo("readCache")
             /\ PastReportStep => InIo("GET financeReports"))

\* A run with caching enabled has displayed the report that the run before
\* it downloaded and cached.
C23_Witness ==
    /\ runs = 1
    /\ useCache
    /\ InIo("readCache") /\ ~InIo("GET financeReports")
    /\ tsvContent = ReportThreeRows
    /\ pc \in {"done_flat", "done_tree"}

\* The cache entry exists, parses, and its timestamp is less than seven days
\* before the current time.
MappingFileFresh ==
    /\ mappingCacheFile # Null
    /\ mappingCacheFile[1].parses
    /\ mappingCacheFile[1].timestamp # Null
    /\ DateNow(now) - mappingCacheFile[1].timestamp[1] < 7 * 24

\* The mapping that the cache entry holds (none when it has no data).
CachedMappingData ==
    IF mappingCacheFile[1].data = Null THEN NoMapping
    ELSE mappingCacheFile[1].data[1]

\* C24: at the mapping block main takes the mapping of the cache entry,
\* without any request to the API and without writing the entry, exactly
\* when the App Manager keys are configured, --refresh-mapping is absent and
\* the entry is fresh; otherwise, with the keys configured, it starts the
\* build, whose result is written back with the current time, and a failed
\* build writes nothing.
C24_CachedMappingIffFresh ==
    /\ [][pc = "config_loaded" =>
             IF appManagerConfig # Null /\ ~refreshMapping /\ MappingFileFresh
             THEN /\ pc' = "month_select"
                  /\ productMapping' = CachedMappingData
                  /\ InIo("readMappingCache")'
                  /\ UNCHANGED mappingCacheFile
             ELSE /\ UNCHANGED <<productMapping, mappingCacheFile>>
                  /\ ~InIo("readMappingCache")'
                  /\ pc' = (IF appManagerConfig # Null THEN "map_start"
                            ELSE "month_select")]_vars
    /\ [][pc = "map_done" =>
             /\ productMapping' = builtMapping
             /\ mappingCacheFile' =
                   Some([parses |-> TRUE, timestamp |-> Some(DateNow(now)),
                         data |-> Some(builtMapping)])]_vars
    /\ [][(pc \in {"map_start", "map_loop", "map_threw"}) =>
             (UNCHANGED <<productMapping, mappingCacheFile>>)]_vars
    /\ [](~(InIo("readMappingCache") /\ InIo("GET apps")))

\* The mapping of an entry twelve hours short of seven days old is in use.
C24_Witness ==
    /\ pc = "month_select"
    /\ InIo("readMappingCache") /\ ~InIo("GET apps")
    /\ mappingCacheFile[1].timestamp = Some(DateNow(now) - CACHE_EXPIRY_MS + 12)
    /\ productMapping = MappingOneApp

\* Nothing of the core processing has happened in the run: no mapping cache
\* access and no mapping build, no report cache access, no report download,
\* no parsing and no rate lookup.
NoCoreProcessing ==
    /\ io = << >>
    /\ fetchedApps = << >> /\ builtMapping = NoMapping /\ productMapping = NoMapping
    /\ response = Null /\ fetched = EmptyStr /\ tsvContent = EmptyStr
    /\ lines = << >> /\ rows = << >> /\ products = NoProducts
    /\ lookups = << >> /\ exchangeRates = NoRates

CredentialMissing == FinanceKeys \ configured # {}

\* C25 as stated: with a required finance credential missing, main
\* terminates with a failure status before any core processing.
C25_AsStated ==
    [][(pc = "main_start" /\ CredentialMissing) =>
          (ExitStatus' = Some(1) /\ NoCoreProcessing')]_vars

\* C25 amended: with a required finance credential missing, the first step
\* of main ends the run before any core processing; the exit status is 1
\* when neither --status nor --setup is given and an issuer id or a key id
\* is configured, and 0 otherwise (status display, setup wizard, or the
\* first-run prompt).
C25_MissingCredentialEndsRun ==
    /\ [][(pc = "main_start" /\ CredentialMissing) =>
             /\ pc' \in Terminated
             /\ NoCoreProcessing'
             /\ ExitStatus' = (IF ~showStatus /\ ~runSetup /\ hasConfiguration(configured)
                               THEN Some(1) ELSE Some(0))]_vars
    /\ [](pc \in {"exit_status", "exit_setup", "exit_first_run",
                  "exit_config_error"} => NoCoreProcessing)

\* A run with issuer id, key id and key path but no vendor number has ended
\* with exit status 1.
C25_Witness ==
    /\ pc = "exit_config_error"
    /\ configured = FinanceKeys \ {"vendorNumber"}
    /\ ExitStatus = Some(1)

NoPaymentEstimate ==
    /\ payLines = << >> /\ payIdx = 0
    /\ paymentInfo = NoPaymentInfo /\ payResult = Null

NoRateLookup == currencies = {} /\ lookups = << >> /\ exchangeRates = NoRates

\* C26: a report that parses to zero rows, or rows that aggregate to zero
\* products, end the run at once with exit status 0; the run has issued no
\* rate lookup, has not grouped and has computed no payment estimate, and
\* nothing more happens in it.
C26_EmptyReportEndsRun ==
    /\ [][(pc = "parse_done" /\ Len(rows) = 0) => pc' = "exit_no_rows"]_vars
    /\ [][(pc = "agg_done" /\ Len(products) = 0) => pc' = "exit_no_products"]_vars
    /\ [](pc \in {"exit_no_rows", "exit_no_products"} =>
             /\ ExitStatus = Some(0)
             /\ NoRateLookup /\ GroupingNeverInvoked /\ NoPaymentEstimate)
    /\ [][(pc \in {"exit_no_rows", "exit_no_products"}) =>
             (pc' = "main_start" /\ runs' = runs + 1)]_vars

\* A run with a product mapping has ended on a report whose only row
\* aggregates to no product.
C26_Witness ==
    /\ pc = "exit_no_products"
    /\ Len(rows) = 1 /\ products = NoProducts
    /\ productMapping # NoMapping

\* The elements of a list.
Elements(list) == {list[n] : n \in 1..Len(list)}

\* The items of an answer; a failed request has none.
ItemsOf(answer) == IF answer = Null THEN {} ELSE Elements(answer[1])

\* The entries that the answers of the API call for: one per app, and two
\* (product id and App Store Connect id) per in-app purchase and per
\* subscription of every request that succeeded.
ExpectedEntries ==
    LET appSet == ItemsOf(apiSource.apps)
        own(a) == [parentAppId |-> a.id, parentAppName |-> a.name, isIAP |-> FALSE]
        under(a) == [parentAppId |-> a.id, parentAppName |-> a.name, isIAP |-> TRUE]
        addOns(a) ==
            ItemsOf(apiSource.iaps[a.id])
            \cup UNION {ItemsOf(apiSource.subs[g]) : g \in ItemsOf(apiSource.groups[a.id])}
    IN {<< a.id, own(a) >> : a \in appSet}
       \cup UNION {{<< it.productId, under(a) >> : it \in addOns(a)} : a \in appSet}
       \cup UNION {{<< it.id, under(a) >> : it \in addOns(a)} : a \in appSet}

\* C27: a failed request for the in-app purchases, the subscription groups
\* or the subscriptions of a group never ends the build, and the mapping
\* returned holds exactly the entries of every app and of every request that
\* succeeded; when the build fails main goes on to the month selection
\* without a mapping, and no uncaught exit comes from the mapping.
C27_MappingFailuresTolerated ==
    /\ [][pc = "map_loop" => pc' \in {"map_loop", "map_done"}]_vars
    /\ [](pc = "map_done" =>
             /\ \A e \in ExpectedEntries :
                   e[1] \in DOMAIN builtMapping /\ builtMapping[e[1]] = e[2]
             /\ \A key \in DOMAIN builtMapping :
                   \E e \in ExpectedEntries : e[1] = key)
    /\ [][pc = "map_threw" =>
             (pc' = "month_select" /\ productMapping' = NoMapping)]_vars
    /\ [](pc = "exit_uncaught" => thrown # Null)
    /\ [](InIo("Continuing without app grouping...") => GroupingNeverInvoked)

\* A build whose in-app purchase request of one app and subscription group
\* request of the other failed has returned both apps and the subscription
\* of the first app, without the in-app purchase.
C27_Witness ==
    /\ pc = "map_done"
    /\ apiSource = Api({"iaps 100", "groups 200"})
    /\ {AppOne.id, AppBee.id, << "A1SUB" >>, << "111" >>} \subseteq DOMAIN builtMapping
    /\ << "A1IAP" >> \notin DOMAIN builtMapping
    /\ << "B1SUB" >> \notin DOMAIN builtMapping

-----------------------------------------------------------------------------
(* Claims about the products on their way through main (Spec) *)

\* The fields of a product other than the converted total.
OtherFields(product) == [product EXCEPT !.totalProceeds = 0]

\* The products that the parent entries hold in their add-on lists.
ListedAddOns(entries) ==
    UNION {Elements(entries[n].iaps) : n \in 1..Len(entries)}

\* C28: convertProducts keeps the number and the order of the products and
\* every field of each product but the converted total; groupByParentApp
\* leaves the products as they are, and the add-ons of its entries are
\* products it was given; the products change at no step other than the
\* return of the aggregator and the conversion (the flat display only
\* reorders the list).
C28_ProductsFrame ==
    /\ [][pc = "convert_start" =>
             /\ Len(products') = Len(products)
             /\ \A n \in 1..Len(products) :
                   OtherFields(products'[n]) = OtherFields(products[n])]_vars
    /\ [][(pc \in {"group_start", "group_loop", "group_done"}) =>
             products' = products]_vars
    /\ [](ListedAddOns(MapValues(appMap)) \subseteq Elements(products))
    /\ [](ListedAddOns(apps) \subseteq Elements(products))
    /\ [][Elements(products') = Elements(products)
          \/ pc \in {"agg_loop", "convert_start"}]_vars

\* A tree has been displayed whose products the conversion gave a total
\* other than the plain sum of their amounts, one of them as an add-on.
C28_Witness ==
    /\ pc = "done_tree"
    /\ \E n \in 1..Len(products) :
          products[n].totalProceeds # ConvertedTotal(products[n], NoRates)
    /\ ListedAddOns(apps) # {}

-----------------------------------------------------------------------------
(* Claims about the grouping as a partition (SpecGroup) *)

\* The places (entry, position) of the add-on lists that hold products[n].
PlacesOf(n) ==
    {<< e, k >> \in (1..Len(apps)) \X (1..MaxProducts) :
        k <= Len(apps[e].iaps) /\ apps[e].iaps[k] = products[n]}

\* The products added to the direct proceeds of the entry e: those listed
\* as add-on nowhere whose parent is e.
DirectOf(e) ==
    {n \in 1..Len(products) :
        /\ PlacesOf(n) = {}
        /\ ResolveParent(productMapping, products[n]).parentAppId
               = apps[e].appleIdentifier}

TotalOf(list) == SumOver(1..Len(list), [n \in 1..Len(list) |-> list[n].totalProceeds])

\* C29: in the result of groupByParentApp every product is listed as an
\* add-on at most once, and in the entry of its parent; the direct proceeds
\* of an entry are the totals of the products of that parent that are listed
\* nowhere, and its total is its direct proceeds plus the totals of its
\* add-ons; so the totals of the entries add up to the totals of the
\* products.
C29_GroupingPartitions ==
    pc = "group_done" =>
        /\ \A n \in 1..Len(products) :
              /\ Cardinality(PlacesOf(n)) <= 1
              /\ \A place \in PlacesOf(n) :
                    apps[place[1]].appleIdentifier
                        = ResolveParent(productMapping, products[n]).parentAppId
        /\ \A e \in 1..Len(apps) :
              /\ apps[e].appProceeds
                    = SumOver(DirectOf(e),
                              [n \in DirectOf(e) |-> products[n].totalProceeds])
              /\ apps[e].totalProceeds = apps[e].appProceeds + TotalOf(apps[e].iaps)
              /\ Len(apps[e].iaps)
                    = Cardinality({n \in 1..Len(products) :
                                      \E place \in PlacesOf(n) : place[1] = e})
        /\ \A d, e \in 1..Len(apps) :
              d # e => apps[d].appleIdentifier # apps[e].appleIdentifier
        /\ GrandTotal(apps) = TotalOf(products)

\* Three products in two entries: one entry has direct proceeds and an
\* add-on.
C29_Witness ==
    /\ pc = "group_done"
    /\ Len(products) = 3 /\ Len(apps) = 2
    /\ \E e \in 1..Len(apps) : apps[e].appProceeds # 0 /\ Len(apps[e].iaps) = 1

-----------------------------------------------------------------------------
(* Claims about the report cache across runs (SpecMain) *)

\* The text that the report source sent in its answer.
SentText ==
    IF response[1].contentType = "application/a-gzip"
    THEN CHOOSE text \in {Tail(response[1].body)} : Gzip(text) = response[1].body
    ELSE response[1].body

DownloadSucceeded ==
    /\ response # Null /\ response[1].kind = "response" /\ response[1].status = 200
    /\ thrown = Null

\* C30: over runs that follow one another, the report cache changes only in
\* the step after a download that succeeded in a run without --no-cache;
\* that step sets the entry of the selected month to the text sent and
\* leaves every other entry as it is.  A failed download, a cache hit and a
\* --no-cache run change nothing.
C30_CacheWrittenOnlyAfterDownload ==
    /\ [][reportCache' # reportCache =>
             /\ pc = "fetch_done" /\ DownloadSucceeded /\ useCache
             /\ InIo("GET financeReports")]_vars
    /\ [][(pc = "fetch_done" /\ useCache) =>
             /\ DOMAIN reportCache'
                   = DOMAIN reportCache \cup {getCacheFilename(selectedMonth)}
             /\ reportCache'[getCacheFilename(selectedMonth)] = SentText
             /\ \A file \in DOMAIN reportCache :
                   file # getCacheFilename(selectedMonth) =>
                       reportCache'[file] = reportCache[file]]_vars
    /\ [][(~useCache \/ InIo("readCache") \/ pc = "fetch_threw") =>
             reportCache' = reportCache]_vars

\* A second run has just cached the report of a month next to the entry of
\* another month.
C30_Witness ==
    /\ runs = 1
    /\ pc = "parse_start" /\ InIo("writeCache")
    /\ Cardinality(DOMAIN reportCache) = 2
    /\ reportCache[getCacheFilename(selectedMonth)] = ReportThreeRows
    /\ \E file \in DOMAIN reportCache : reportCache[file] # ReportThreeRows

=============================================================================
